---------------------------- MODULE Spec2Model ----------------------------
(***************************************************************************)
(* A model of the ingestion-and-retrieval pipeline of the QA agent:        *)
(*   backend/ingestion.py     TextChunker, DocumentParser, DocumentIngestion*)
(*   backend/vector_store.py  VectorStore (an upserting collection)        *)
(* Strings are sequences of one-character strings; Python's 0-based        *)
(* offsets are kept, so text[i] of the source is text[i + 1] here.         *)
(***************************************************************************)
EXTENDS Integers, Sequences, FiniteSets, TLC

VARIABLES
    text,        \* chunk_text: the argument text
    chunk_size,  \* chunk_text: the argument chunk_size
    overlap,     \* chunk_text: the argument overlap
    start,       \* chunk_text: the cursor
    chunks,      \* chunk_text: the list being built
    windows,     \* history: the <<start, end>> pairs of the iterations so far
    pc,          \* chunk_text: "call", "loop" or "done"
    collection,  \* VectorStore.collection: a set of [id, document, metadata]
    ret,         \* the value (or exception) of the last request
    last,        \* history: the last request and what it was given
    files,               \* build_knowledge_base: the argument files
    total_chunks,        \* build_knowledge_base: the running total
    ingested_files,      \* build_knowledge_base: the names ingested so far
    html_content_store,  \* main.py: the global html_content_store
    html_content,        \* script_generator.html_content
    requests             \* the requests under way at the same time, by caller

vars == <<text, chunk_size, overlap, start, chunks, windows, pc,
          collection, ret, last,
          files, total_chunks, ingested_files, html_content_store, html_content,
          requests>>

chunkVars == <<text, chunk_size, overlap, start, chunks, windows, pc>>
indexVars == <<collection, ret, last>>
batchVars == <<files, total_chunks, ingested_files>>
htmlVars == <<html_content_store, html_content>>
appVars == <<files, total_chunks, ingested_files, html_content_store, html_content,
             requests>>

\* Python's None, written as a sequence no string of characters equals
None == <<"None">>

\* main.py line 41 and SeleniumScriptGenerator.__init__ line 26, with no
\* request under way
AppStart ==
    /\ files = <<>>
    /\ total_chunks = 0
    /\ ingested_files = <<>>
    /\ html_content_store = [content |-> None, filename |-> None]
    /\ html_content = None
    /\ requests = <<>>

---------------------------------------------------------------------------
(* Bounds of the model *)

MaxLen == 5        \* short texts have at most MaxLen characters
MaxTokens == 3     \* long texts: BreakFloor + 1 letters, then <= MaxTokens tokens
MaxChunk == 3      \* chunk_size ranges over 1..MaxChunk (short texts)
MaxOverlap == 3    \* overlap ranges over 0..MaxOverlap
MaxResults == 2    \* search: n_results ranges over 1..MaxResults
MaxDocLen == 3     \* re-chunked documents vary in at most MaxDocLen characters
MaxIngests == 2    \* re-chunking: ingests of the document between two clears

(* Program constants *)

BreakFloor == 100          \* _find_break_point: start + 100
DefaultChunkSize == 500    \* chunk_text(text, chunk_size=500, overlap=50)
DefaultOverlap == 50
IdPrefixLen == 100         \* generate_doc_id: text[:100]

---------------------------------------------------------------------------
(* Python string primitives *)

Whitespace == {" ", "\n", "\t", "\r"}

MinInt(a, b) == IF a < b THEN a ELSE b
MaxInt(a, b) == IF a > b THEN a ELSE b

MaxOf(S) == CHOOSE x \in S : \A y \in S : y <= x

\* a slice index as Python normalises it: negative counts from the end,
\* and the result is clamped to 0..len
SliceIndex(i, len) == IF i < 0 THEN MaxInt(len + i, 0) ELSE MinInt(i, len)

\* s[lo:hi]
Slice(s, lo, hi) ==
    LET l == SliceIndex(lo, Len(s))
        h == SliceIndex(hi, Len(s))
    IN  IF h <= l THEN <<>> ELSE SubSeq(s, l + 1, h)

\* s.rfind(sub, lo, hi): the highest offset of an occurrence of sub lying
\* wholly inside s[lo:hi], or -1
rfind(s, sub, lo, hi) ==
    LET l == SliceIndex(lo, Len(s))
        h == SliceIndex(hi, Len(s))
        occ == {i \in l..(h - Len(sub)) :
                    \A k \in 1..Len(sub) : s[i + k] = sub[k]}
    IN  IF occ = {} THEN -1 ELSE MaxOf(occ)

RECURSIVE FirstNonSpace(_, _)
FirstNonSpace(s, i) ==
    IF i > Len(s) THEN i
    ELSE IF s[i] \notin Whitespace THEN i ELSE FirstNonSpace(s, i + 1)

RECURSIVE LastNonSpace(_, _)
LastNonSpace(s, i) ==
    IF i < 1 THEN i
    ELSE IF s[i] \notin Whitespace THEN i ELSE LastNonSpace(s, i - 1)

lstrip(s) == SubSeq(s, FirstNonSpace(s, 1), Len(s))

\* s.strip()
strip(s) == SubSeq(s, FirstNonSpace(s, 1), LastNonSpace(s, Len(s)))

---------------------------------------------------------------------------
(* TextChunker *)

Puncts == << <<".", " ">>, <<"!", " ">>, <<"?", " ">> >>

\* the sentence loop of _find_break_point: the first terminator, in list
\* order, whose last occurrence passes the floor; 0 if none does
SentenceHit(t, s, e) ==
    LET hits == {p \in 1..Len(Puncts) : rfind(t, Puncts[p], s, e) > s + BreakFloor}
    IN  IF hits = {} THEN 0 ELSE CHOOSE p \in hits : \A q \in hits : p <= q

\* a slip of _find_break_point: the boundaries are looked for up to the end
\* of the text and not up to the tentative end
find_break_point_NoEnd(t, s, e) ==
    LET para_break == rfind(t, <<"\n", "\n">>, s, Len(t))
        hit        == SentenceHit(t, s, Len(t))
        line_break == rfind(t, <<"\n">>, s, Len(t))
        word_break == rfind(t, <<" ">>, s, Len(t))
    IN  IF para_break > s + BreakFloor THEN para_break + 2
        ELSE IF hit # 0 THEN rfind(t, Puncts[hit], s, Len(t)) + 2
        ELSE IF line_break > s + BreakFloor THEN line_break + 1
        ELSE IF word_break > s THEN word_break + 1
        ELSE e

\* a slip of _find_break_point: of the candidates that pass their test the
\* latest is taken, whatever its kind
find_break_point_Latest(t, s, e) ==
    LET para_break == rfind(t, <<"\n", "\n">>, s, e)
        hit        == SentenceHit(t, s, e)
        line_break == rfind(t, <<"\n">>, s, e)
        word_break == rfind(t, <<" ">>, s, e)
        ends == (IF para_break > s + BreakFloor THEN {para_break + 2} ELSE {})
                \cup (IF hit # 0 THEN {rfind(t, Puncts[hit], s, e) + 2} ELSE {})
                \cup (IF line_break > s + BreakFloor THEN {line_break + 1} ELSE {})
                \cup (IF word_break > s THEN {word_break + 1} ELSE {})
    IN  IF ends = {} THEN e ELSE MaxOf(ends)

find_break_point(t, s, e) ==
    LET para_break == rfind(t, <<"\n", "\n">>, s, e)
        hit        == SentenceHit(t, s, e)
        line_break == rfind(t, <<"\n">>, s, e)
        word_break == rfind(t, <<" ">>, s, e)
    IN  IF para_break > s + BreakFloor THEN para_break + 2
        ELSE IF hit # 0 THEN rfind(t, Puncts[hit], s, e) + 2
        ELSE IF line_break > s + BreakFloor THEN line_break + 1
        ELSE IF word_break > s THEN word_break + 1
        ELSE e

\* the end of the window that starts at s (lines 226-232)
WindowEnd(t, s, size) ==
    LET end == s + size
    IN  IF end < Len(t)
        THEN LET break_point == find_break_point(t, s, end)
             IN  IF break_point > s THEN break_point ELSE end
        ELSE end

\* slips of line 239: ">=" for ">", "+" for "-", the overlap forgotten
NextStart_NoProgress(s, end, ov) == IF end - ov >= s THEN end - ov ELSE end
NextStart_Plus(s, end, ov) == IF end + ov > s THEN end + ov ELSE end
NextStart_NoOverlap(s, end, ov) == end

\* another slip of line 239: the test for progress forgotten
NextStart_Unguarded(s, end, ov) == end - ov

\* line 239
NextStart(s, end, ov) == IF end - ov > s THEN end - ov ELSE end

\* lines 234-236
Emit(cs, t, s, end) ==
    LET chunk == strip(Slice(t, s, end))
    IN  IF chunk # <<>> THEN Append(cs, chunk) ELSE cs

---------------------------------------------------------------------------
(* The inputs of chunk_text *)

Seqs(S, n) == UNION {[1..k -> S] : k \in 0..n}

RECURSIVE Concat(_)
Concat(ss) == IF ss = <<>> THEN <<>> ELSE Head(ss) \o Concat(Tail(ss))

\* a slip of join: the last part first
join_LastFirst(sep, parts) ==
    IF parts = <<>> THEN <<>>
    ELSE Concat([i \in DOMAIN parts |->
            IF i = 1 THEN parts[Len(parts)] ELSE sep \o parts[i - 1]] \o <<>>)

\* sep.join(parts)
join(sep, parts) ==
    Concat([i \in DOMAIN parts |-> IF i = 1 THEN parts[1] ELSE sep \o parts[i]] \o <<>>)

\* (a function over 1..n is made a tuple by concatenating it with <<>>)
Fill(n) == [i \in 1..n |-> "a"] \o <<>>

ShortChars == {"a", " ", "\n"}
ShortTexts == Seqs(ShortChars, MaxLen)
ShortSizes == 1..MaxChunk

\* long texts put their boundaries behind the floor of the first window
Tokens == {<<"a">>, <<" ">>, <<"\n">>, <<".", " ">>, <<"!", " ">>}
LongTexts == {Fill(BreakFloor + 1) \o Concat(ts) : ts \in Seqs(Tokens, MaxTokens)}
LongSizes == {BreakFloor + 1 + k : k \in 1..(MaxChunk + 1)}

Overlaps == 0..MaxOverlap

\* the scenario text: 1200 characters, no whitespace, no punctuation
ScenarioText == Fill(1200)

\* texts with one space right behind the start of the first window
EarlySpaceTexts == {<<"a", " ">> \o Fill(BreakFloor + k) : k \in 1..2}

ChunkInputs ==
    (ShortTexts \X ShortSizes \X Overlaps)
    \cup (LongTexts \X LongSizes \X Overlaps)
    \cup (EarlySpaceTexts \X {BreakFloor + 1} \X Overlaps)
    \cup {<<ScenarioText, DefaultChunkSize, DefaultOverlap>>}

---------------------------------------------------------------------------
(* chunk_text as a loop: one action per iteration *)

NoRequest == [op |-> "none"]
NoResult == [kind |-> "none"]

InitChunk ==
    /\ \E in \in ChunkInputs :
          /\ text = in[1]
          /\ chunk_size = in[2]
          /\ overlap = in[3]
    /\ start = 0
    /\ chunks = <<>>
    /\ windows = <<>>
    /\ pc = "call"
    /\ collection = {}
    /\ ret = NoResult
    /\ last = NoRequest
    /\ AppStart
\* lines 217-222
chunk_text_enter ==
    /\ pc = "call"
    /\ pc' = IF text = <<>> THEN "done" ELSE "loop"
    /\ start' = 0
    /\ chunks' = <<>>
    /\ UNCHANGED <<text, chunk_size, overlap, windows>>
    /\ UNCHANGED indexVars
    /\ UNCHANGED appVars

\* lines 224-239: one iteration of the while loop
chunk_text_iter ==
    /\ pc = "loop"
    /\ start < Len(text)
    /\ LET end == WindowEnd(text, start, chunk_size)
       IN  /\ chunks' = Emit(chunks, text, start, end)
           /\ windows' = Append(windows, <<start, end>>)
           /\ start' = NextStart(start, end, overlap)
    /\ UNCHANGED <<text, chunk_size, overlap, pc>>
    /\ UNCHANGED indexVars
    /\ UNCHANGED appVars

\* lines 224, 241: the loop condition fails and the list is returned
chunk_text_return ==
    /\ pc = "loop"
    /\ ~(start < Len(text))
    /\ pc' = "done"
    /\ UNCHANGED <<text, chunk_size, overlap, start, chunks, windows>>
    /\ UNCHANGED indexVars
    /\ UNCHANGED appVars

NextChunk == chunk_text_enter \/ chunk_text_iter \/ chunk_text_return

SpecChunk == InitChunk /\ [][NextChunk]_vars

---------------------------------------------------------------------------
(* Claims about chunk_text *)

Lens(cs) == [i \in DOMAIN cs |-> Len(cs[i])]

\* the window <<s, e>> holds a character that is not whitespace
NonBlank(t, w) == \E o \in w[1]..(MinInt(w[2], Len(t)) - 1) : t[o + 1] \notin Whitespace

IsSubstring(c, t) ==
    \E a \in 0..(Len(t) - Len(c)) : \A k \in 1..Len(c) : t[a + k] = c[k]

\* C1: chunk_text terminates for every text, every chunk_size >= 1 and every
\* overlap >= 0, also when overlap >= chunk_size or overlap >= the window:
\* the loop runs at most len(text) iterations (each one records a window),
\* and a call that has not returned is at a point from which chunk_text_enter,
\* chunk_text_iter or chunk_text_return can step (the guards of the last two
\* are complementary).
C1_Terminates ==
    /\ Len(windows) <= Len(text)
    /\ pc \in {"call", "loop", "done"}
    /\ pc = "done" => ~(start < Len(text))

C1_Witness ==
    /\ pc = "done"
    /\ overlap >= chunk_size
    /\ Len(windows) >= 3

\* C2: the windows start at offset 0, each next window starts no later than
\* the end of the one before and shares at most overlap characters with it,
\* and once the call has returned every offset of the text lies in a window.
C2_Coverage ==
    /\ windows # <<>> => windows[1][1] = 0
    /\ \A i \in 1..(Len(windows) - 1) :
          /\ windows[i + 1][1] <= windows[i][2]
          /\ windows[i][2] - windows[i + 1][1] <= overlap
    /\ (pc = "done" /\ text # <<>>) =>
          \A o \in 0..(Len(text) - 1) :
              \E i \in DOMAIN windows : windows[i][1] <= o /\ o < windows[i][2]

C2_Witness ==
    /\ pc = "done"
    /\ Len(windows) >= 3
    /\ overlap >= 1
    /\ \E i \in 1..(Len(windows) - 1) : windows[i][2] - windows[i + 1][1] = overlap
    /\ \E i \in 1..(Len(windows) - 1) : windows[i][2] = windows[i + 1][1]

Scenario ==
    /\ text = ScenarioText
    /\ chunk_size = DefaultChunkSize
    /\ overlap = DefaultOverlap
    /\ pc = "done"

RawEnds == \A i \in DOMAIN windows : windows[i][2] = windows[i][1] + chunk_size

\* C3 as stated: the 1200-character text without whitespace or punctuation,
\* chunk_size 500 and overlap 50, gives chunks of 500, 500 and 200 characters,
\* every window ending at start + chunk_size.
C3_Original == Scenario => (Lens(chunks) = <<500, 500, 200>> /\ RawEnds)

\* C3 as amended: the same call gives chunks of 500, 500 and 300 characters
\* (the windows start at 0, 450 and 900), every window ending at
\* start + chunk_size.
C3_Amended ==
    Scenario =>
        /\ Lens(chunks) = <<500, 500, 300>>
        /\ windows = <<<<0, 500>>, <<450, 950>>, <<900, 1400>>>>
        /\ RawEnds

C3_Witness == Scenario /\ Len(chunks) = 3

\* C4: no emitted chunk is empty after trimming: the empty text returns the
\* empty list, a window that is blank emits nothing while the cursor moves past
\* its start, and every chunk is a non-empty, trimmed, contiguous substring of
\* the text.
C4_NoEmptyChunk ==
    /\ \A i \in DOMAIN chunks :
          /\ chunks[i] # <<>>
          /\ chunks[i][1] \notin Whitespace
          /\ chunks[i][Len(chunks[i])] \notin Whitespace
          /\ IsSubstring(chunks[i], text)
    /\ (pc = "done" /\ text = <<>>) => (chunks = <<>> /\ windows = <<>>)
    /\ Len(chunks) = Cardinality({i \in DOMAIN windows : NonBlank(text, windows[i])})
    /\ windows # <<>> => start > windows[Len(windows)][1]

C4_Witness ==
    /\ pc = "done"
    /\ chunks # <<>>
    /\ \E i \in DOMAIN windows : ~NonBlank(text, windows[i])
    /\ \E i \in DOMAIN chunks : Len(chunks[i]) < windows[i][2] - windows[i][1]

\* the boundary kinds of _find_break_point with the length of their text
BoundaryKinds ==
    { <<"\n", "\n">>, <<".", " ">>, <<"!", " ">>, <<"?", " ">>, <<"\n">>, <<" ">> }

\* the boundary b stands in t at offset p
BoundaryAt(t, p, b) ==
    /\ p >= 0
    /\ p + Len(b) <= Len(t)
    /\ \A k \in 1..Len(b) : t[p + k] = b[k]

\* the windows whose tentative end lies before the end of the text
Searched22(i) == windows[i][1] + chunk_size < Len(text)

\* C22: a window for which a boundary is looked for ends at the raw
\* tentative end start + chunk_size, or just after a boundary of one of the
\* four kinds that stands behind start + 100; so with chunk_size > 100 every
\* window that ends before the end of the text is longer than 100 characters.
C22_Floor ==
    \A i \in DOMAIN windows :
        LET s == windows[i][1]
            e == windows[i][2]
        IN  /\ Searched22(i) =>
                \/ e = s + chunk_size
                \/ \E b \in BoundaryKinds :
                      /\ BoundaryAt(text, e - Len(b), b)
                      /\ e - Len(b) > s + BreakFloor
            /\ (chunk_size > BreakFloor /\ e < Len(text)) => e - s > BreakFloor

\* the starts of the windows increase strictly
Increasing == \A i \in 1..(Len(windows) - 1) : windows[i][1] < windows[i + 1][1]

\* C23: an iteration of chunk_text that made the window <<start, end>> leaves
\* the cursor at end - overlap if that is greater than the old start and at
\* end otherwise, and in both cases further than it was; the starts of the
\* windows increase strictly, also when overlap >= end - start.
C23_Advance ==
    /\ []Increasing
    /\ [][Len(windows') = Len(windows) + 1 =>
            LET w == windows'[Len(windows')]
            IN  /\ w[1] = start
                /\ w[2] > start
                /\ start' = (IF w[2] - overlap > start THEN w[2] - overlap ELSE w[2])
                /\ start' > start]_vars

\* a call in which one window was no longer than the overlap, so that the
\* next began at its end, and another was followed by a window that began
\* overlap characters before its end
C23_Witness ==
    /\ pc = "done"
    /\ overlap >= 1
    /\ \E i \in 1..(Len(windows) - 1) :
          /\ overlap >= windows[i][2] - windows[i][1]
          /\ windows[i + 1][1] = windows[i][2]
    /\ \E i \in 1..(Len(windows) - 1) :
          /\ overlap < windows[i][2] - windows[i][1]
          /\ windows[i + 1][1] = windows[i][2] - overlap

\* the offsets at which the boundary b stands inside the window that starts
\* at s and has the tentative end e, behind the floor the code tests it
\* against: start + 100, and start for a space
Qualifying(b, s, e) ==
    {p \in s..(e - Len(b)) :
        /\ BoundaryAt(text, p, b)
        /\ p > (IF b = <<" ">> THEN s ELSE s + BreakFloor)}

\* the end of the window for a list of boundary kinds in the order of their
\* priority, each kind a set of boundaries: just behind the last qualifying
\* occurrence of the first kind that has one, and e if none has
RECURSIVE EndByPriority(_, _, _)
EndByPriority(kinds, s, e) ==
    IF kinds = <<>> THEN e
    ELSE LET ends == UNION {{p + Len(b) : p \in Qualifying(b, s, e)} : b \in kinds[1]}
         IN  IF ends # {} THEN MaxOf(ends) ELSE EndByPriority(Tail(kinds), s, e)

FourKinds ==
    << {<<"\n", "\n">>}, {<<".", " ">>, <<"!", " ">>, <<"?", " ">>}, {<<"\n">>}, {<<" ">>} >>

SixKinds ==
    << {<<"\n", "\n">>}, {<<".", " ">>}, {<<"!", " ">>}, {<<"?", " ">>}, {<<"\n">>},
       {<<" ">>} >>

EndsBy(kinds) ==
    \A i \in DOMAIN windows :
        LET s == windows[i][1]
            e == windows[i][2]
        IN  IF s + chunk_size < Len(text)
            THEN e = EndByPriority(kinds, s, s + chunk_size)
            ELSE e = s + chunk_size /\ e >= Len(text)

\* C24 as stated: a window whose tentative end lies before the end of the
\* text ends just behind the last qualifying occurrence, inside the window, of
\* the first of the four kinds paragraph, sentence terminator, newline, space
\* that has one, the three terminators being one kind; a window whose
\* tentative end is at or past the end of the text runs to the end of the text.
C24_Original == EndsBy(FourKinds)

\* C24 as amended: the same with the sentence terminators tried one after the
\* other, ". " before "! " before "? ": the window ends behind the last
\* qualifying occurrence of the first terminator that has one, also when
\* another terminator stands later in the window.
C24_Amended == EndsBy(SixKinds)

\* a first window that ends behind ". " although "! " stands later in it
C24_Witness ==
    /\ pc = "done"
    /\ chunk_size < Len(text)
    /\ \E p \in Qualifying(<<".", " ">>, 0, chunk_size) :
          /\ windows[1] = <<0, p + 2>>
          /\ \E q \in Qualifying(<<"!", " ">>, 0, chunk_size) : q > p

\* C25: every window ends behind its start and no further than chunk_size
\* characters from it (a break point never lies behind the tentative end),
\* and every chunk returned has at most chunk_size characters.
C25_ChunkSize ==
    /\ \A i \in DOMAIN windows :
          /\ windows[i][1] < windows[i][2]
          /\ windows[i][2] <= windows[i][1] + chunk_size
    /\ \A i \in DOMAIN chunks : Len(chunks[i]) <= chunk_size

\* a call that returned a chunk of chunk_size characters and had a window
\* that a boundary ended before its tentative end
C25_Witness ==
    /\ pc = "done"
    /\ \E i \in DOMAIN chunks : Len(chunks[i]) = chunk_size
    /\ \E i \in DOMAIN windows :
          /\ windows[i][1] + chunk_size < Len(text)
          /\ windows[i][2] < windows[i][1] + chunk_size

\* the windows that reach the end of the text
Final == {i \in DOMAIN windows : windows[i][2] >= Len(text)}

---------------------------------------------------------------------------
(* chunk_text as a function: the list the loop above returns *)

RECURSIVE ChunkLoop(_, _, _, _, _)
ChunkLoop(t, size, ov, s, cs) ==
    IF s < Len(t)
    THEN LET end == WindowEnd(t, s, size)
         IN  ChunkLoop(t, size, ov, NextStart(s, end, ov), Emit(cs, t, s, end))
    ELSE cs

chunk_text(t, size, ov) == IF t = <<>> THEN <<>> ELSE ChunkLoop(t, size, ov, 0, <<>>)

---------------------------------------------------------------------------
(* DocumentParser.parse_file, for the text formats *)

\* the characters the model's files are written in, with their UTF-8 bytes
Ascii == [c \in {"a", "b", " ", "\n", ".", "d", "m", "t", "x", "_", "0", ":",
                 "<", ">", "/", "p", "h", "l"} |->
            CASE c = "a" -> 97 [] c = "b" -> 98 [] c = " " -> 32
              [] c = "\n" -> 10 [] c = "." -> 46
              [] c = "d" -> 100 [] c = "m" -> 109 [] c = "t" -> 116
              [] c = "x" -> 120 [] c = "_" -> 95 [] c = "0" -> 48
              [] c = ":" -> 58 [] c = "<" -> 60 [] c = ">" -> 62
              [] c = "/" -> 47 [] c = "p" -> 112 [] c = "h" -> 104
              [] c = "l" -> 108]

encode(t) == [i \in DOMAIN t |-> Ascii[t[i]]] \o <<>>

\* bytes.decode('utf-8') on bytes that are ASCII or 0xFF: a byte >= 0x80
\* that starts no valid sequence raises UnicodeDecodeError
DecodeFails(bs) == \E i \in DOMAIN bs : bs[i] >= 128
decode(bs) == [i \in DOMAIN bs |-> CHOOSE c \in DOMAIN Ascii : Ascii[c] = bs[i]] \o <<>>

lower(name) ==
    [i \in DOMAIN name |->
        CASE name[i] = "B" -> "b" [] name[i] = "D" -> "d" [] name[i] = "M" -> "m"
          [] name[i] = "T" -> "t" [] name[i] = "X" -> "x" [] name[i] = "H" -> "h"
          [] name[i] = "L" -> "l" [] name[i] = "P" -> "p" [] name[i] = "A" -> "a"
          [] name[i] = "J" -> "j" [] name[i] = "S" -> "s" [] name[i] = "O" -> "o"
          [] name[i] = "N" -> "n" [] name[i] = "F" -> "f" [] name[i] = "C" -> "c"
          [] OTHER -> name[i]] \o <<>>

\* a slip of the extension: the name is not put in lower case
Extension_CaseSensitive(filename) ==
    LET dot == rfind(filename, <<".">>, 0, Len(filename))
    IN  Slice(filename, dot + 1, Len(filename))

\* filename.lower().split('.')[-1]
Extension(filename) ==
    LET n == lower(filename)
        dot == rfind(n, <<".">>, 0, Len(n))
    IN  Slice(n, dot + 1, Len(n))

TextExtensions == {<<"t", "x", "t">>, <<"m", "d">>}

\* the strings of a markup between its tags, in the order of the markup: s is
\* read from position i on, tag says whether i is inside <...>, cur is the
\* string being read
RECURSIVE Strings(_, _, _, _)
Strings(s, i, tag, cur) ==
    IF i > Len(s) THEN <<cur>>
    ELSE IF s[i] = "<" THEN <<cur>> \o Strings(s, i + 1, TRUE, <<>>)
    ELSE IF s[i] = ">" THEN Strings(s, i + 1, FALSE, <<>>)
    ELSE IF tag THEN Strings(s, i + 1, TRUE, <<>>)
    ELSE Strings(s, i + 1, FALSE, Append(cur, s[i]))

\* soup.get_text(separator='\n', strip=True): the strings stripped, the empty
\* ones left out, joined by newlines
get_text(content) ==
    LET ss == Strings(content, 1, FALSE, <<>>)
        stripped == [i \in DOMAIN ss |-> strip(ss[i])] \o <<>>
    IN  join(<<"\n">>, SelectSeq(stripped, LAMBDA x : x # <<>>))

\* _parse_html (lines 107-124) for a markup of text and <p> elements, which
\* has no script, no style and none of the elements _extract_html_structure
\* lists
parse_html(bs) ==
    IF DecodeFails(bs) THEN [kind |-> "raise", exc |-> "UnicodeDecodeError"]
    ELSE [kind |-> "text",
          text |-> <<"H", "T", "M", "L", " ", "C", "o", "n", "t", "e", "n", "t", ":", "\n">>
                     \o get_text(decode(bs))
                     \o <<"\n", "\n", "H", "T", "M", "L", " ", "S", "t", "r", "u", "c",
                          "t", "u", "r", "e", ":", "\n">>]

\* the characters of a string as one string, for a message
RECURSIVE Str(_)
Str(s) == IF s = <<>> THEN "" ELSE s[1] \o Str(Tail(s))

\* _parse_json (lines 72-79) for the contents of the model, of which only a
\* lone 0 between white space is a JSON document: json.loads gives the
\* integer, _json_to_text writes it as "0"; any other content makes
\* json.loads raise
parse_json(bs) ==
    IF DecodeFails(bs) THEN [kind |-> "raise", exc |-> "UnicodeDecodeError"]
    ELSE IF strip(decode(bs)) = <<"0">> THEN [kind |-> "text", text |-> <<"0">>]
    ELSE [kind |-> "raise", exc |-> "JSONDecodeError"]

\* _parse_pdf (lines 178-188) for the contents of the model, none of which is
\* a PDF file: PdfReader raises
parse_pdf(bs) == [kind |-> "raise", exc |-> "PdfReadError"]

\* _parse_docx (lines 191-199) for the contents of the model, none of which
\* is a zip archive: Document raises
parse_docx(bs) == [kind |-> "raise", exc |-> "BadZipFile"]

\* parse_file(file_content=bs, filename=name): the text, or the exception
\* raised
parse_file(bs, filename) ==
    IF filename = <<>> THEN [kind |-> "raise", exc |-> "ValueError: Filename is required"]
    ELSE IF Extension(filename) \in TextExtensions
    THEN IF DecodeFails(bs) THEN [kind |-> "raise", exc |-> "UnicodeDecodeError"]
         ELSE [kind |-> "text", text |-> decode(bs)]
    ELSE IF Extension(filename) = <<"j", "s", "o", "n">> THEN parse_json(bs)
    ELSE IF Extension(filename) = <<"h", "t", "m", "l">> THEN parse_html(bs)
    ELSE IF Extension(filename) = <<"p", "d", "f">> THEN parse_pdf(bs)
    ELSE IF Extension(filename) = <<"d", "o", "c", "x">> THEN parse_docx(bs)
    ELSE IF DecodeFails(bs)
    THEN [kind |-> "raise",
          exc |-> "ValueError: Unsupported file type: " \o Str(Extension(filename))]
    ELSE [kind |-> "text", text |-> decode(bs)]

---------------------------------------------------------------------------
(* VectorStore *)

Digit == <<"0", "1", "2", "3", "4", "5", "6", "7", "8", "9">>

\* str(i) for i >= 0
RECURSIVE str(_)
str(i) == IF i < 10 THEN <<Digit[i + 1]>> ELSE str(i \div 10) \o <<Digit[(i % 10) + 1]>>

\* hashlib.md5(...).hexdigest(), taken to be injective: the digest is
\* represented by the string it is computed from
md5(content) == <<"md5">> \o content

\* slips of generate_doc_id: the position left out; the whole text hashed;
\* a running number in place of the content
generate_doc_id_Counter(t, source) ==
    md5(source \o <<":">> \o str(Cardinality(collection)))
generate_doc_id_ContentOnly(t, source) == md5(Slice(t, 0, IdPrefixLen))
generate_doc_id_FullText(t, source) == md5(source \o <<":">> \o t)

\* lines 31-34
generate_doc_id(t, source) == md5(source \o <<":">> \o Slice(t, 0, IdPrefixLen))

\* line 52: f"{source_name}_{i}"
position_tag(source_name, i) == source_name \o <<"_">> \o str(i)

\* lines 47-58: the three parallel lists, as one list of entries
Batch(cs, source_name) ==
    [i \in DOMAIN cs |->
        [id       |-> generate_doc_id(cs[i], position_tag(source_name, i - 1)),
         document |-> cs[i],
         metadata |-> [source |-> source_name, chunk_index |-> i - 1]]] \o <<>>

BatchIds(batch) == {batch[i].id : i \in DOMAIN batch}

\* slips of upsert: add(), which appends without looking for the id;
\* replacing a source's entries instead of the entries of the same id
upsert_Add(coll, batch) == coll \cup {batch[i] : i \in DOMAIN batch}
upsert_ReplaceSource(coll, batch) ==
    {e \in coll : \A i \in DOMAIN batch : e.metadata.source # batch[i].metadata.source}
        \cup {batch[i] : i \in DOMAIN batch}

\* a slip of upsert: an entry that is there gets the new text and keeps its
\* metadata
upsert_KeepMetadata(coll, batch) ==
    {e \in coll : e.id \notin BatchIds(batch)}
        \cup {[id |-> batch[i].id,
               document |-> batch[i].document,
               metadata |-> IF \E e \in coll : e.id = batch[i].id
                            THEN (CHOOSE e \in coll : e.id = batch[i].id).metadata
                            ELSE batch[i].metadata] : i \in DOMAIN batch}

\* collection.upsert: every entry of the batch replaces the entry of the
\* same id, if there is one
upsert(coll, batch) ==
    {e \in coll : e.id \notin BatchIds(batch)} \cup {batch[i] : i \in DOMAIN batch}

\* collection.upsert refuses a batch that names an id twice
DuplicateIds(batch) == \E i, j \in DOMAIN batch : i # j /\ batch[i].id = batch[j].id

\* a slip of line 67: the number of entries the call created
add_documents_return_Created(cs, coll, batch) ==
    Cardinality(BatchIds(batch) \ {e.id : e \in coll})

\* lines 44-45, 67
add_documents_return(cs, coll, batch) == IF cs = <<>> THEN 0 ELSE Len(cs)

\* add_documents(chunks, source_name) on the collection coll: the collection
\* it leaves and the value it returns
add_documents(coll, cs, source_name) ==
    LET batch == Batch(cs, source_name)
    IN  IF cs = <<>>
        THEN [collection |-> coll,
              ret |-> [kind |-> "return", value |-> add_documents_return(cs, coll, batch)]]
        ELSE IF DuplicateIds(batch)
        THEN [collection |-> coll, ret |-> [kind |-> "raise", exc |-> "DuplicateIDError"]]
        ELSE [collection |-> upsert(coll, batch),
              ret |-> [kind |-> "return", value |-> add_documents_return(cs, coll, batch)]]

get_document_count(coll) == Cardinality(coll)

get_sources(coll) == {e.metadata.source : e \in coll}

---------------------------------------------------------------------------
(* The files the requests upload *)

Names == << <<"a", ".", "t", "x", "t">>, <<"B", ".", "M", "D">> >>

Contents ==
    << encode(<<>>),
       encode(<<" ", "a", " ", "b", "\n">>),
       encode(Fill(IdPrefixLen) \o <<"a">>),
       encode(Fill(IdPrefixLen) \o <<"b">>),
       encode(ScenarioText),
       <<97, 255>> >>

Files == (DOMAIN Names) \X (DOMAIN Contents)

FileName(f) == Names[f[1]]
FileContent(f) == Contents[f[2]]

Queries == {<<"a">>, <<"a", " ", "b">>}

\* what ingest_file computes from a file before it touches the index
\* (lines 297-307): the parse, and the chunks of the parsed text
ParsedTable ==
    [n \in DOMAIN Names |->
        [c \in DOMAIN Contents |-> parse_file(Contents[c], Names[n])] \o <<>>] \o <<>>

Parsed(f) == ParsedTable[f[1]][f[2]]

ChunkedTable ==
    [n \in DOMAIN Names |->
        [c \in DOMAIN Contents |->
            IF ParsedTable[n][c].kind = "text"
            THEN chunk_text(ParsedTable[n][c].text, DefaultChunkSize, DefaultOverlap)
            ELSE <<>>] \o <<>>] \o <<>>

Chunked(f) == ChunkedTable[f[1]][f[2]]

---------------------------------------------------------------------------
(* The requests on the shared index *)

NoFile == <<0, 0>>

NoParams == <<0, 0>>

\* what the history keeps of a request: its arguments and, of the collection
\* it found, the count, the sources, the ids, and how many ids of its batch
\* were there already (present), how many with another text (changed)
Request(op, f, again, n, coll, batch) ==
    [op       |-> op,
     file     |-> f,
     again    |-> again,
     n        |-> n,
     count0   |-> get_document_count(coll),
     sources0 |-> get_sources(coll),
     ids0     |-> {e.id : e \in coll},
     present  |-> Cardinality({i \in DOMAIN batch :
                     \E e \in coll : e.id = batch[i].id}),
     changed  |-> Cardinality({i \in DOMAIN batch :
                     \E e \in coll : e.id = batch[i].id
                                     /\ e.document # batch[i].document})]

Init ==
    /\ text = <<>>
    /\ chunk_size = DefaultChunkSize
    /\ overlap = DefaultOverlap
    /\ start = 0
    /\ chunks = <<>>
    /\ windows = <<>>
    /\ pc = "idle"
    /\ collection = {}
    /\ ret = NoResult
    /\ last = Request("none", NoFile, FALSE, 0, {}, <<>>)
    /\ AppStart
\* a slip of ingest_file: the text is decoded and upserted as far as it
\* decodes, and the error is raised afterwards
ingest_file_Streaming(f) ==
    LET parsed == Parsed(f)
        again == last.op = "ingest_file" /\ last.file = f
        bs == FileContent(f)
        bad == CHOOSE i \in DOMAIN bs : bs[i] >= 128 /\ \A j \in 1..(i - 1) : bs[j] < 128
        cs == IF parsed.kind = "raise"
              THEN chunk_text(decode(SubSeq(bs, 1, bad - 1)), DefaultChunkSize, DefaultOverlap)
              ELSE Chunked(f)
        source_name == FileName(f)
        added == add_documents(collection, cs, source_name)
    IN  /\ collection' = added.collection
        /\ ret' = (IF parsed.kind = "raise" THEN parsed ELSE added.ret)
        /\ last' = Request("ingest_file", f, again, Len(cs), collection,
                           Batch(cs, source_name))

\* DocumentIngestion.ingest_file(file_content=..., filename=...)
ingest_file(f) ==
    LET parsed == Parsed(f)
        again == last.op = "ingest_file" /\ last.file = f
    IN  IF parsed.kind = "raise"
        THEN /\ ret' = parsed
             /\ last' = Request("ingest_file", f, again, 0, collection, <<>>)
             /\ UNCHANGED collection
        ELSE LET cs == Chunked(f)
                 source_name == FileName(f)
                 added == add_documents(collection, cs, source_name)
             IN  /\ collection' = added.collection
                 /\ ret' = added.ret
                 /\ last' = Request("ingest_file", f, again, Len(cs), collection,
                                    Batch(cs, source_name))

IngestFile ==
    /\ \E f \in Files : ingest_file(f)
    /\ UNCHANGED chunkVars
    /\ UNCHANGED appVars

\* a slip of clear: only the first chunk of every source is deleted
Clear_FirstChunks ==
    /\ collection' = {e \in collection : e.metadata.chunk_index > 0}
    /\ ret' = [kind |-> "return", value |-> 0]
    /\ last' = Request("clear", NoFile, FALSE, 0, collection, <<>>)
    /\ UNCHANGED chunkVars
    /\ UNCHANGED appVars

\* VectorStore.clear
Clear ==
    /\ collection' = {}
    /\ ret' = [kind |-> "return", value |-> 0]
    /\ last' = Request("clear", NoFile, FALSE, 0, collection, <<>>)
    /\ UNCHANGED chunkVars
    /\ UNCHANGED appVars

\* the distance the embedding puts between a query and a document, lower
\* is nearer; the embedding is outside the repository, and this stands for it
Distance(q, d) ==
    LET shared == Cardinality({i \in DOMAIN q : i <= Len(d) /\ q[i] = d[i]})
    IN  (Len(q) - shared) + (IF Len(d) > Len(q) THEN Len(d) - Len(q) ELSE Len(q) - Len(d))

\* a slip of the query: min(n, count) entries in the order they were stored
\* in, not the nearest and not by distance
Nearest_AnyOrder(coll, q, n) ==
    LET m == MinInt(n, Cardinality(coll))
    IN  {r \in [1..m -> coll] : \A i, j \in 1..m : i < j => r[i] # r[j]}

\* collection.query: the ids of the min(n, count) nearest entries, nearest
\* first; entries at the same distance come in any order
Nearest(coll, q, n) ==
    LET m == MinInt(n, Cardinality(coll))
    IN  {r \in [1..m -> coll] :
            /\ \A i, j \in 1..m : i < j =>
                  /\ r[i] # r[j]
                  /\ Distance(q, r[i].document) <= Distance(q, r[j].document)
            /\ \A e \in coll : (\A i \in 1..m : r[i] # e) =>
                  \A i \in 1..m : Distance(q, r[i].document) <= Distance(q, e.document)}

\* lines 85-95
Formatted(q, r) ==
    [i \in DOMAIN r |->
        [content  |-> r[i].document,
         metadata |-> r[i].metadata,
         distance |-> Distance(q, r[i].document)]] \o <<>>

\* VectorStore.search(query, n_results)
Search ==
    /\ \E q \in Queries, n \in 1..MaxResults :
          \E r \in Nearest(collection, q, n) :
              /\ ret' = [kind |-> "return", value |-> Formatted(q, r)]
              /\ last' = [query |-> q]
                             @@ Request("search", NoFile, FALSE, n, collection, <<>>)
    /\ UNCHANGED collection
    /\ UNCHANGED chunkVars
    /\ UNCHANGED appVars

Next == IngestFile \/ Clear \/ Search

Spec == Init /\ [][Next]_vars

---------------------------------------------------------------------------
(* Claims about the index *)

Ids(coll) == {e.id : e \in coll}

LastBatch == Batch(Chunked(last.file), FileName(last.file))

Ingested == last.op = "ingest_file" /\ ret.kind = "return"

\* C5: ingesting a file a second time (same name, same bytes, default
\* chunking), whatever the index held before the first time, leaves the count
\* and the sources as the first ingest left them.
C5_IdempotentReingest ==
    (last.op = "ingest_file" /\ last.again) =>
        /\ get_document_count(collection) = last.count0
        /\ get_sources(collection) = last.sources0

\* a.txt, three chunks, ingested twice into the empty index
C5_Witness ==
    /\ Ingested /\ last.again
    /\ FileName(last.file) = Names[1]
    /\ last.n = 3
    /\ get_document_count(collection) = 3
    /\ get_sources(collection) = {Names[1]}

\* C7: add_documents returns len(chunks) whether or not the ids were in the
\* index; the value equals the change of the count exactly when no id of the
\* batch was present, and exceeds it otherwise.
C7_ReturnsLen ==
    Ingested =>
        /\ ret.value = last.n
        /\ ret.value = Len(Chunked(last.file))
        /\ ret.value >= get_document_count(collection) - last.count0
        /\ (ret.value = get_document_count(collection) - last.count0) <=> (last.present = 0)

C7_Witness ==
    /\ Ingested
    /\ last.present > 0
    /\ last.present < last.n
    /\ ret.value > get_document_count(collection) - last.count0

SamePrefix(c, d) == Slice(c, 0, IdPrefixLen) = Slice(d, 0, IdPrefixLen)

\* C8: the id depends only on the position tag and the first 100 characters:
\* chunks of the same source and index get the same id exactly when their first
\* 100 characters agree, whatever their tails; and after an upsert the index
\* holds exactly one entry of each id of the batch, with the batch's text.
C8_PrefixFingerprint ==
    /\ \A f, g \in Files : f[1] = g[1] =>
          \A i \in (DOMAIN Chunked(f)) \cap (DOMAIN Chunked(g)) :
              LET a == Batch(Chunked(f), FileName(f))[i]
                  b == Batch(Chunked(g), FileName(g))[i]
              IN  (a.id = b.id) <=> SamePrefix(a.document, b.document)
    /\ Ingested =>
          \A i \in DOMAIN LastBatch :
              /\ Cardinality({e \in collection : e.id = LastBatch[i].id}) = 1
              /\ \A e \in collection :
                    e.id = LastBatch[i].id => e.document = LastBatch[i].document

\* an entry was overwritten by a chunk of the same first 100 characters and
\* another tail
C8_Witness ==
    /\ Ingested
    /\ last.changed > 0
    /\ last.n = 1
    /\ get_document_count(collection) = last.count0

MaxIndex == 11     \* position tags are compared for chunk indexes 0..MaxIndex

TagNames ==
    {Names[n] : n \in DOMAIN Names}
        \cup {<<"a">>, <<"a", "_", "1">>, <<"a", "_">>, <<"a", "1">>}

\* C9: the same text under another chunk index or another source name is
\* digested from another string, so (the digest being injective) it gets another
\* id; an upsert replaces only entries of the same source and index, and every
\* other entry stays as it was.
C9_PositionInIdentity ==
    /\ \A n1, n2 \in TagNames : \A i1, i2 \in 0..MaxIndex :
          <<n1, i1>> # <<n2, i2>> =>
              /\ position_tag(n1, i1) # position_tag(n2, i2)
              /\ \A t \in {<<>>, <<"a">>, Fill(IdPrefixLen + 1)} :
                    generate_doc_id(t, position_tag(n1, i1))
                        # generate_doc_id(t, position_tag(n2, i2))
    /\ [][last'.op = "ingest_file" =>
            \A e \in collection :
                \/ e \in collection'
                \/ \E d \in collection' : d.id = e.id /\ d.metadata = e.metadata]_vars

\* the same text is in the index under two sources and under two indexes
C9_Witness ==
    /\ \E e1, e2 \in collection :
          /\ e1.document = e2.document
          /\ e1.metadata.source # e2.metadata.source
          /\ e1.metadata.chunk_index = e2.metadata.chunk_index
    /\ \E e1, e2 \in collection :
          /\ e1.document = e2.document
          /\ e1.metadata.source = e2.metadata.source
          /\ e1.metadata.chunk_index # e2.metadata.chunk_index

\* C10: a request other than clear removes no entry: the count does not
\* decrease and every id stays, also when a name is ingested again with fewer
\* chunks; clear removes them all.
C10_OnlyClearRemoves ==
    [][IF last'.op = "clear"
       THEN collection' = {}
       ELSE /\ get_document_count(collection') >= get_document_count(collection)
            /\ Ids(collection) \subseteq Ids(collection')]_vars

\* a name was ingested again with fewer chunks and its later chunks are still
\* in the index
C10_Witness ==
    /\ Ingested
    /\ last.n >= 1
    /\ last.present >= 1
    /\ \E e \in collection :
          /\ e.metadata.source = FileName(last.file)
          /\ e.metadata.chunk_index >= last.n

\* ingest_file(f) on an index created a moment ago: the collection it leaves
\* and what it returns
OnNewIndex(f) ==
    IF Parsed(f).kind = "raise"
    THEN [collection |-> {}, ret |-> Parsed(f)]
    ELSE add_documents({}, Chunked(f), FileName(f))

Cleared ==
    last.op = "clear" =>
        /\ collection = {}
        /\ get_document_count(collection) = 0
        /\ get_sources(collection) = {}
        /\ \A q \in Queries, n \in 1..MaxResults :
              {Formatted(q, r) : r \in Nearest(collection, q, n)} = {<<>>}

\* C11: after clear, whatever was ingested before, the count is 0, there is
\* no source, every search returns the empty list, and the request that follows
\* gives what it gives on a new index: a search the empty list, an ingest the
\* collection and the value of that ingest on a new index.
C11_ClearIsFresh ==
    /\ []Cleared
    /\ [][last.op = "clear" =>
            /\ last'.op = "search" => ret' = [kind |-> "return", value |-> <<>>]
            /\ last'.op = "ingest_file" =>
                  /\ collection' = OnNewIndex(last'.file).collection
                  /\ ret' = OnNewIndex(last'.file).ret]_vars

\* clear found the chunks of both names in the index
C11_Witness ==
    /\ last.op = "clear"
    /\ last.count0 >= 4
    /\ last.sources0 = {Names[n] : n \in DOMAIN Names}
    /\ collection = {}

Searched == last.op = "search" /\ ret.kind = "return"

C17_NoPartialCommit ==
    [][last'.op = "ingest_file" =>
          LET f == last'.file
              batch == Batch(Chunked(f), FileName(f))
          IN  \/ /\ ret'.kind = "return"
                 /\ Parsed(f).kind = "text"
                 /\ collection' = upsert(collection, batch)
                 /\ \A i \in DOMAIN batch : batch[i] \in collection'
                 /\ collection' \ collection \subseteq {batch[i] : i \in DOMAIN batch}
              \/ /\ ret'.kind = "raise"
                 /\ collection' = collection
                 /\ get_document_count(collection') = get_document_count(collection)
                 /\ get_sources(collection') = get_sources(collection)]_vars

\* a file that does not decode was refused while the index held the chunks of
\* both names, after a file of three chunks had been ingested whole
C17_Witness ==
    /\ last.op = "ingest_file"
    /\ ret.kind = "raise"
    /\ last.count0 >= 4
    /\ get_document_count(collection) = last.count0
    /\ Ids(collection) = last.ids0
    /\ \E e \in collection : e.metadata.chunk_index = 2

---------------------------------------------------------------------------
(* Re-ingesting one document while the chunking parameters change:          *)
(* ingest_file's steps with chunk_text given chunk_size and overlap, which  *)
(* ingest_file itself leaves at their defaults.                             *)

DocChars == {"a", " "}
ShortDocs == Seqs(DocChars, MaxDocLen)
LongDocs == {Fill(BreakFloor + 1) \o t : t \in Seqs(DocChars, MaxDocLen)}

\* the parameterizations tried on a document
Family(t) ==
    IF Len(t) > BreakFloor THEN LongSizes \X (0..1) ELSE ShortSizes \X (0..1)

RechunkRequest(op, params, params0, seq, n, coll, batch) ==
    [op       |-> op,
     params   |-> params,
     params0  |-> params0,
     seq      |-> seq,
     n        |-> n,
     count0   |-> get_document_count(coll),
     ids0     |-> {e.id : e \in coll},
     present  |-> Cardinality({i \in DOMAIN batch :
                     \E e \in coll : e.id = batch[i].id}),
     changed  |-> Cardinality({i \in DOMAIN batch :
                     \E e \in coll : e.id = batch[i].id
                                     /\ e.document # batch[i].document})]

InitRechunk ==
    /\ text \in ShortDocs \cup LongDocs
    /\ chunk_size = DefaultChunkSize
    /\ overlap = DefaultOverlap
    /\ start = 0
    /\ chunks = <<>>
    /\ windows = <<>>
    /\ pc = "idle"
    /\ collection = {}
    /\ ret = NoResult
    /\ last = RechunkRequest("none", NoParams, NoParams, 0, 0, {}, <<>>)
    /\ AppStart
\* ingest_file lines 304-312 for the document parsed to text, under the name
\* a.txt, with chunk_text called as chunk_text(text, p[1], p[2])
IngestText ==
    /\ last.seq < MaxIngests
    /\ \E p \in Family(text) :
          LET cs == chunk_text(text, p[1], p[2])
              source_name == Names[1]
              added == add_documents(collection, cs, source_name)
          IN  /\ chunk_size' = p[1]
              /\ overlap' = p[2]
              /\ collection' = added.collection
              /\ ret' = added.ret
              /\ last' = RechunkRequest("ingest", p, last.params,
                                        last.seq + 1, Len(cs), collection,
                                        Batch(cs, source_name))
    /\ UNCHANGED <<text, start, chunks, windows, pc>>
    /\ UNCHANGED appVars

\* VectorStore.clear
ClearIndex ==
    /\ collection' = {}
    /\ ret' = [kind |-> "return", value |-> 0]
    /\ last' = RechunkRequest("clear", NoParams, NoParams, 0, 0, collection, <<>>)
    /\ UNCHANGED chunkVars
    /\ UNCHANGED appVars

NextRechunk == IngestText \/ ClearIndex

SpecRechunk == InitRechunk /\ [][NextRechunk]_vars

Reingested ==
    /\ last.op = "ingest"
    /\ last.seq >= 2
    /\ last.params0 # NoParams

---------------------------------------------------------------------------
(* The sources of the index: files whose names and texts make the strings  *)
(* that generate_doc_id digests coincide across two names, with a history   *)
(* of what was upserted since the last clear.                               *)

SourceNames ==
    << <<"a", ".", "t", "x", "t">>,
       <<"a", ".", "t", "x", "t", "_", "0", ":", "b", ".", "m", "d">>,
       <<"B", ".", "M", "D">> >>

SourceContents ==
    << encode(<<"b", ".", "m", "d", "_", "0", ":", "a">>),
       encode(<<"a">>),
       encode(<<" ">>),
       <<97, 255>> >>

SourceFiles == (DOMAIN SourceNames) \X (DOMAIN SourceContents)

SourceParsed(f) == parse_file(SourceContents[f[2]], SourceNames[f[1]])

\* the history: the request, and the pairs <<source name, id>> upserted since
\* the last clear
SourceRequest(op, f, upserted) == [op |-> op, file |-> f, upserted |-> upserted]

InitSources ==
    /\ text = <<>>
    /\ chunk_size = DefaultChunkSize
    /\ overlap = DefaultOverlap
    /\ start = 0
    /\ chunks = <<>>
    /\ windows = <<>>
    /\ pc = "idle"
    /\ collection = {}
    /\ ret = NoResult
    /\ last = SourceRequest("none", NoFile, {})
    /\ AppStart
\* DocumentIngestion.ingest_file(file_content=..., filename=...)
IngestSource ==
    /\ \E f \in SourceFiles :
          LET parsed == SourceParsed(f)
          IN  IF parsed.kind = "raise"
              THEN /\ ret' = parsed
                   /\ last' = SourceRequest("ingest_file", f, last.upserted)
                   /\ UNCHANGED collection
              ELSE LET cs == chunk_text(parsed.text, DefaultChunkSize, DefaultOverlap)
                       source_name == SourceNames[f[1]]
                       added == add_documents(collection, cs, source_name)
                       batch == Batch(cs, source_name)
                   IN  /\ collection' = added.collection
                       /\ ret' = added.ret
                       /\ last' = SourceRequest("ingest_file", f,
                              IF added.ret.kind = "return"
                              THEN last.upserted
                                     \cup {<<source_name, batch[i].id>> : i \in DOMAIN batch}
                              ELSE last.upserted)
    /\ UNCHANGED chunkVars
    /\ UNCHANGED appVars

\* VectorStore.clear
ClearSources ==
    /\ collection' = {}
    /\ ret' = [kind |-> "return", value |-> 0]
    /\ last' = SourceRequest("clear", NoFile, {})
    /\ UNCHANGED chunkVars
    /\ UNCHANGED appVars

NextSources == IngestSource \/ ClearSources

SpecSources == InitSources /\ [][NextSources]_vars

Upserted == {p[2] : p \in last.upserted}
Contributed == {p[1] : p \in last.upserted}

\* C12 as stated: the count is the number of distinct ids upserted since the
\* last clear, and the sources are the names the entries carry, which are the
\* names of all the documents that gave a chunk since the last clear.
C12_Original ==
    /\ get_document_count(collection) = Cardinality(Upserted)
    /\ get_sources(collection) = {e.metadata.source : e \in collection}
    /\ get_sources(collection) = Contributed

\* C12 as amended: the count is the number of distinct ids upserted since the
\* last clear and the index holds exactly one entry of each; the sources are
\* the names the entries carry; each of them gave a chunk since the last clear,
\* and a document that gave a chunk is listed unless every id of it was also
\* upserted under another name.
C12_Amended ==
    /\ get_document_count(collection) = Cardinality(Upserted)
    /\ Ids(collection) = Upserted
    /\ get_sources(collection) = {e.metadata.source : e \in collection}
    /\ get_sources(collection) \subseteq Contributed
    /\ \A n \in Contributed \ get_sources(collection) :
          \A p \in last.upserted :
              p[1] = n => \E q \in last.upserted : q[2] = p[2] /\ q[1] # n

\* a.txt gave its only chunk, the chunk of the second name took its id, and
\* a.txt is not listed; a third document is listed with them
C12_Witness ==
    /\ last.op = "ingest_file"
    /\ ret.kind = "return"
    /\ Contributed = {SourceNames[n] : n \in DOMAIN SourceNames}
    /\ SourceNames[1] \notin get_sources(collection)
    /\ Cardinality(get_sources(collection)) = 2
    /\ get_document_count(collection) = Cardinality(Upserted)

---------------------------------------------------------------------------
(* The context builders of the two generators, applied to the list of     *)
(* results a search returned.                                              *)

MaxContext == 3    \* results in a list

\* test_generator.py line 55, script_generator.py line 66
TestSentinel ==
    << "N", "o", " ", "r", "e", "l", "e", "v", "a", "n", "t", " ", "d", "o",
       "c", "u", "m", "e", "n", "t", "a", "t", "i", "o", "n", " ", "f", "o",
       "u", "n", "d", "." >>
ScriptSentinel ==
    << "N", "o", " ", "a", "d", "d", "i", "t", "i", "o", "n", "a", "l", " ",
       "c", "o", "n", "t", "e", "x", "t", " ", "a", "v", "a", "i", "l", "a",
       "b", "l", "e", "." >>

\* test_generator.py line 63, script_generator.py line 74
TestSeparator == << "\n", "\n", "-", "-", "-", "\n", "\n" >>
ScriptSeparator == << "\n", "\n" >>

\* dict.get(key, default)
get(d, key, default) == IF key \in DOMAIN d THEN d[key] ELSE default

\* a slip of the f-string: the source left out
script_block_NoSource(doc) == doc.content

\* f"[Source: {source}]\n{content}", in each of the two builders
test_block(doc) ==
    LET source == get(doc.metadata, "source", <<"U", "n", "k", "n", "o", "w", "n">>)
        content == doc.content
    IN  <<"[", "S", "o", "u", "r", "c", "e", ":", " ">> \o source \o <<"]", "\n">> \o content

script_block(doc) ==
    LET source == get(doc.metadata, "source", <<"U", "n", "k", "n", "o", "w", "n">>)
        content == doc.content
    IN  <<"[", "S", "o", "u", "r", "c", "e", ":", " ">> \o source \o <<"]", "\n">> \o content

\* a slip of line 55: nothing for no documents
test_build_context_Blank(documents) ==
    join(TestSeparator, [i \in DOMAIN documents |-> test_block(documents[i])] \o <<>>)

\* TestCaseGenerator._build_context
test_build_context(documents) ==
    IF documents = <<>> THEN TestSentinel
    ELSE join(TestSeparator, [i \in DOMAIN documents |-> test_block(documents[i])] \o <<>>)

\* SeleniumScriptGenerator._build_context
script_build_context(documents) ==
    IF documents = <<>> THEN ScriptSentinel
    ELSE join(ScriptSeparator, [i \in DOMAIN documents |-> script_block(documents[i])] \o <<>>)

\* results as search formats them, and one whose metadata has no source
ResultPool ==
    { [content |-> <<"a">>, distance |-> 0,
       metadata |-> [source |-> Names[1], chunk_index |-> 0]],
      [content |-> <<"b", "\n">>, distance |-> 1,
       metadata |-> [source |-> Names[2], chunk_index |-> 1]],
      [content |-> <<"a">>, distance |-> 1,
       metadata |-> [source |-> Names[2], chunk_index |-> 0]],
      [content |-> <<"a", " ", "b">>, distance |-> 2,
       metadata |-> [chunk_index |-> 0]] }

ContextRequest(op, documents) == [op |-> op, documents |-> documents]

InitContext ==
    /\ text = <<>>
    /\ chunk_size = DefaultChunkSize
    /\ overlap = DefaultOverlap
    /\ start = 0
    /\ chunks = <<>>
    /\ windows = <<>>
    /\ pc = "idle"
    /\ collection = {}
    /\ ret = NoResult
    /\ last \in {ContextRequest("search", ds) : ds \in Seqs(ResultPool, MaxContext)}
    /\ AppStart
\* generate_test_cases line 42
TestBuildContext ==
    /\ ret' = [kind |-> "return", value |-> test_build_context(last.documents)]
    /\ last' = ContextRequest("test", last.documents)
    /\ UNCHANGED <<collection, chunkVars>>
    /\ UNCHANGED appVars

\* generate_script line 53
ScriptBuildContext ==
    /\ ret' = [kind |-> "return", value |-> script_build_context(last.documents)]
    /\ last' = ContextRequest("script", last.documents)
    /\ UNCHANGED <<collection, chunkVars>>
    /\ UNCHANGED appVars

NextContext == TestBuildContext \/ ScriptBuildContext

SpecContext == InitContext /\ [][NextContext]_vars

Built == last.op \in {"test", "script"} /\ ret.kind = "return"

\* C14: for the empty list each builder returns its sentinel, a constant
\* that is not the empty string and has a character that is not whitespace.
C14_Sentinel ==
    (Built /\ last.documents = <<>>) =>
        /\ ret.value = (IF last.op = "test" THEN TestSentinel ELSE ScriptSentinel)
        /\ ret.value # <<>>
        /\ strip(ret.value) # <<>>

C14_Witness ==
    /\ Built
    /\ last.op = "script"
    /\ last.documents = <<>>
    /\ Len(ret.value) > 0

\* the block the claims prescribe for one result
Rendered(d) ==
    <<"[", "S", "o", "u", "r", "c", "e", ":", " ">>
        \o (IF "source" \in DOMAIN d.metadata THEN d.metadata.source
            ELSE <<"U", "n", "k", "n", "o", "w", "n">>)
        \o <<"]">> \o <<"\n">> \o d.content

SeparatorOf(op) == IF op = "test" THEN TestSeparator ELSE ScriptSeparator

\* where the block of the i-th result begins in the context (0-based offset)
RECURSIVE BlockOffset(_, _, _)
BlockOffset(ds, sep, i) ==
    IF i = 1 THEN 0
    ELSE BlockOffset(ds, sep, i - 1) + Len(Rendered(ds[i - 1])) + Len(sep)

\* C15: for a list that is not empty the context is, result by result in the
\* order of the list, the block "[Source: " source "]" newline content, with
\* the builder's separator between two blocks and nothing else: as many blocks
\* as results, none left out, none twice, none moved.
C15_Blocks ==
    (Built /\ last.documents # <<>>) =>
        LET ds == last.documents
            sep == SeparatorOf(last.op)
            n == Len(ds)
        IN  /\ Len(ret.value) = BlockOffset(ds, sep, n) + Len(Rendered(ds[n]))
            /\ \A i \in 1..n :
                  Slice(ret.value, BlockOffset(ds, sep, i),
                        BlockOffset(ds, sep, i) + Len(Rendered(ds[i]))) = Rendered(ds[i])
            /\ \A i \in 1..(n - 1) :
                  Slice(ret.value, BlockOffset(ds, sep, i) + Len(Rendered(ds[i])),
                        BlockOffset(ds, sep, i + 1)) = sep

\* three results, one of them twice and one without a source
C15_Witness ==
    /\ Built
    /\ last.op = "test"
    /\ Len(last.documents) = 3
    /\ last.documents[1] = last.documents[3]
    /\ last.documents[1] # last.documents[2]
    /\ "source" \notin DOMAIN last.documents[2].metadata
    /\ Len(ret.value) > 3 * Len(TestSeparator)

OtherContext ==
    IF last.op = "test" THEN script_build_context(last.documents)
    ELSE test_build_context(last.documents)

\* C16 as stated: for every list of results the two builders return the same
\* string.
C16_Original == Built => ret.value = OtherContext

\* C16 as amended: the two builders render the same blocks in the same order
\* and return the same string for a list of exactly one result; they differ in
\* the sentinel they return for the empty list and in the separator they put
\* between two blocks, so for every other list the two strings differ.
C16_Amended ==
    Built =>
        /\ (ret.value = OtherContext) <=> (Len(last.documents) = 1)
        /\ \A i \in DOMAIN last.documents :
              test_block(last.documents[i]) = script_block(last.documents[i])
        /\ last.documents = <<>> =>
              {ret.value, OtherContext} = {TestSentinel, ScriptSentinel}
        /\ TestSentinel # ScriptSentinel
        /\ TestSeparator # ScriptSeparator

\* the script builder was given two results
C16_Witness ==
    /\ Built
    /\ last.op = "script"
    /\ Len(last.documents) = 2
    /\ ret.value # OtherContext
    /\ Len(OtherContext) = Len(ret.value) + Len(TestSeparator) - Len(ScriptSeparator)

---------------------------------------------------------------------------
(* The request handlers of main.py, one request at a time;                 *)
(* build_knowledge_base takes one step for every file of its loop.  The    *)
(* single uploads and the uploads of several files are explored apart.     *)

MaxBatch == 3      \* files in one build_knowledge_base request

AppNames ==
    << <<"a", ".", "t", "x", "t">>, <<"P", ".", "H", "T", "M", "L">>,
       <<"a", ".", "j", "s", "o", "n">> >>

AppContents ==
    << encode(<<"<", "p", ">", "a", "<", "/", "p", ">">>),
       encode(<<"b">>),
       <<97, 255>>,
       <<>> >>

\* a.txt with b and with bytes that do not decode, P.HTML with a markup, with
\* bytes that do not decode and with nothing, a.json with a markup
AppFiles == {<<1, 2>>, <<1, 3>>, <<2, 1>>, <<2, 3>>, <<2, 4>>, <<3, 1>>}

\* the files of the requests of several files: the first four
BatchFiles == {<<1, 2>>, <<1, 3>>, <<2, 1>>, <<2, 3>>}

AppName(f) == AppNames[f[1]]
AppContent(f) == AppContents[f[2]]

\* the strings upload_html_text is given
AppTexts == {decode(AppContents[c]) : c \in {d \in DOMAIN AppContents : ~DecodeFails(AppContents[d])}}

\* str.endswith
endswith(s, suffix) ==
    Len(s) >= Len(suffix) /\ SubSeq(s, Len(s) - Len(suffix) + 1, Len(s)) = suffix

\* bool(x) for x a string or None
Truthy(x) == x # None /\ x # <<>>

\* ingest_file(file_content=bs, filename=name) on the collection coll: the
\* collection it leaves and what it returns or raises
ingest(coll, bs, filename) ==
    LET parsed == parse_file(bs, filename)
    IN  IF parsed.kind = "raise"
        THEN [collection |-> coll, ret |-> parsed]
        ELSE add_documents(coll,
                 chunk_text(parsed.text, DefaultChunkSize, DefaultOverlap), filename)

\* ingest_html(html, filename); isstr is isinstance(html, str)
ingest_html(coll, html, filename, isstr) ==
    ingest(coll, IF isstr THEN encode(html) ELSE html, filename)

\* SeleniumScriptGenerator.set_html_content: the value of self.html_content
set_html_content(h) == h

\* script_generator.py line 97: the HTML the prompt shows
page_html(h) ==
    IF Truthy(h) THEN h
    ELSE <<"H", "T", "M", "L", " ", "n", "o", "t", " ", "p", "r", "o", "v", "i", "d", "e", "d">>

Success(value) == [kind |-> "return", value |-> value]

HTTPException(status_code, detail) ==
    [kind |-> "raise", exc |-> "HTTPException", status_code |-> status_code,
     detail |-> detail]

\* what a handler answers when the ingest answered r
Answer(r) ==
    IF r.ret.kind = "raise" THEN HTTPException(500, r.ret.exc)
    ELSE Success([status |-> "success", chunks_added |-> r.ret.value])

\* whether upload_html or upload_html_text has answered with success since
\* the start or the last clear, and the HTML of the latest one that has, as
\* the last request and its answer show it
HtmlUploaded ==
    CASE last.op \in {"none", "clear_knowledge_base"} -> [done |-> FALSE, html |-> None]
      [] last.op = "upload_html" /\ ret.kind = "return" ->
            [done |-> TRUE, html |-> decode(AppContent(last.arg))]
      [] last.op = "upload_html_text" /\ ret.kind = "return" ->
            [done |-> TRUE, html |-> last.arg[2]]
      [] OTHER -> last.uploaded

\* the history: the request, its argument, the collection it found, and the
\* successful uploads of HTML before it
AppRequest(op, arg, coll) ==
    [op |-> op, arg |-> arg, collection0 |-> coll, uploaded |-> HtmlUploaded]

InitApp ==
    /\ text = <<>>
    /\ chunk_size = DefaultChunkSize
    /\ overlap = DefaultOverlap
    /\ start = 0
    /\ chunks = <<>>
    /\ windows = <<>>
    /\ pc = "idle"
    /\ collection = {}
    /\ ret = NoResult
    /\ last = [op |-> "none", arg |-> NoFile, collection0 |-> {},
               uploaded |-> [done |-> FALSE, html |-> None]]
    /\ AppStart

upload_document ==
    /\ pc = "idle"
    /\ UNCHANGED requests
    /\ \E f \in AppFiles :
          LET r == ingest(collection, AppContent(f), AppName(f))
          IN  /\ collection' = r.collection
              /\ ret' = Answer(r)
              /\ last' = AppRequest("upload_document", f, collection)
    /\ UNCHANGED <<chunkVars, batchVars, htmlVars>>

\* a slip of upload_html: the text extracted for the index is kept, not the
\* markup
upload_html_StoreParsed ==
    /\ pc = "idle"
    /\ UNCHANGED requests
    /\ \E f \in AppFiles :
          LET content == AppContent(f)
              filename == AppName(f)
              r == ingest_html(collection, content, filename, FALSE)
              kept == IF parse_file(content, filename).kind = "text"
                      THEN parse_file(content, filename).text ELSE decode(content)
          IN  /\ IF DecodeFails(content)
                 THEN /\ ret' = HTTPException(500, "UnicodeDecodeError")
                      /\ UNCHANGED <<collection, htmlVars>>
                 ELSE /\ html_content_store' = [content |-> kept, filename |-> filename]
                      /\ html_content' = set_html_content(kept)
                      /\ collection' = r.collection
                      /\ ret' = Answer(r)
              /\ last' = AppRequest("upload_html", f, collection)
    /\ UNCHANGED <<chunkVars, batchVars>>

\* lines 126-150
upload_html ==
    /\ pc = "idle"
    /\ UNCHANGED requests
    /\ \E f \in AppFiles :
          LET content == AppContent(f)
              filename == AppName(f)
              r == ingest_html(collection, content, filename, FALSE)
          IN  /\ IF DecodeFails(content)
                 THEN /\ ret' = HTTPException(500, "UnicodeDecodeError")
                      /\ UNCHANGED <<collection, htmlVars>>
                 ELSE /\ html_content_store' =
                            [content |-> decode(content), filename |-> filename]
                      /\ html_content' = set_html_content(decode(content))
                      /\ collection' = r.collection
                      /\ ret' = Answer(r)
              /\ last' = AppRequest("upload_html", f, collection)
    /\ UNCHANGED <<chunkVars, batchVars>>

\* lines 153-173
upload_html_text ==
    /\ pc = "idle"
    /\ UNCHANGED requests
    /\ \E html \in AppTexts, n \in DOMAIN AppNames :
          LET filename == AppNames[n]
              r == ingest_html(collection, html, filename, TRUE)
          IN  /\ html_content_store' = [content |-> html, filename |-> filename]
              /\ html_content' = set_html_content(html)
              /\ collection' = r.collection
              /\ ret' = Answer(r)
              /\ last' = AppRequest("upload_html_text", <<n, html>>, collection)
    /\ UNCHANGED <<chunkVars, batchVars>>

\* lines 176-182: the request arrives and the loop is entered
build_knowledge_base_enter ==
    /\ pc = "idle"
    /\ UNCHANGED requests
    /\ \E fs \in Seqs(BatchFiles, MaxBatch) \ {<<>>} :
          /\ files' = fs
          /\ last' = AppRequest("build_knowledge_base", fs, collection)
    /\ total_chunks' = 0
    /\ ingested_files' = <<>>
    /\ pc' = "batch"
    /\ ret' = NoResult
    /\ UNCHANGED <<collection, htmlVars>>
    /\ UNCHANGED <<text, chunk_size, overlap, start, chunks, windows>>

\* a slip of the loop: a failure takes the index back to where the request
\* found it
build_knowledge_base_iter_Rollback ==
    /\ pc = "batch"
    /\ UNCHANGED requests
    /\ Len(ingested_files) < Len(files)
    /\ LET file == files[Len(ingested_files) + 1]
           content == AppContent(file)
           filename == AppName(file)
           html == endswith(lower(filename), <<".", "h", "t", "m", "l">>)
           r == ingest(collection, content, filename)
       IN  IF html /\ DecodeFails(content)
           THEN /\ ret' = HTTPException(500, "UnicodeDecodeError")
                /\ pc' = "idle"
                /\ collection' = last.collection0
                /\ UNCHANGED <<htmlVars, total_chunks, ingested_files>>
           ELSE /\ IF html
                   THEN /\ html_content_store' =
                              [content |-> decode(content), filename |-> filename]
                        /\ html_content' = set_html_content(decode(content))
                   ELSE UNCHANGED htmlVars
                /\ IF r.ret.kind = "raise"
                   THEN /\ ret' = HTTPException(500, r.ret.exc)
                        /\ pc' = "idle"
                        /\ collection' = last.collection0
                        /\ UNCHANGED <<total_chunks, ingested_files>>
                   ELSE /\ collection' = r.collection
                        /\ total_chunks' = total_chunks + r.ret.value
                        /\ ingested_files' = Append(ingested_files, filename)
                        /\ UNCHANGED <<ret, pc>>
    /\ UNCHANGED <<files, last>>
    /\ UNCHANGED <<text, chunk_size, overlap, start, chunks, windows>>

\* another slip of the loop: the name is tested for .html as it is written
build_knowledge_base_iter_CaseSensitive ==
    /\ pc = "batch"
    /\ UNCHANGED requests
    /\ Len(ingested_files) < Len(files)
    /\ LET file == files[Len(ingested_files) + 1]
           content == AppContent(file)
           filename == AppName(file)
           html == endswith(filename, <<".", "h", "t", "m", "l">>)
           r == ingest(collection, content, filename)
       IN  IF html /\ DecodeFails(content)
           THEN /\ ret' = HTTPException(500, "UnicodeDecodeError")
                /\ pc' = "idle"
                /\ UNCHANGED <<collection, htmlVars, total_chunks, ingested_files>>
           ELSE /\ IF html
                   THEN /\ html_content_store' =
                              [content |-> decode(content), filename |-> filename]
                        /\ html_content' = set_html_content(decode(content))
                   ELSE UNCHANGED htmlVars
                /\ IF r.ret.kind = "raise"
                   THEN /\ ret' = HTTPException(500, r.ret.exc)
                        /\ pc' = "idle"
                        /\ UNCHANGED <<collection, total_chunks, ingested_files>>
                   ELSE /\ collection' = r.collection
                        /\ total_chunks' = total_chunks + r.ret.value
                        /\ ingested_files' = Append(ingested_files, filename)
                        /\ UNCHANGED <<ret, pc>>
    /\ UNCHANGED <<files, last>>
    /\ UNCHANGED <<text, chunk_size, overlap, start, chunks, windows>>

\* lines 183-199: one iteration of the loop, and lines 207-208 when it raises
build_knowledge_base_iter ==
    /\ pc = "batch"
    /\ UNCHANGED requests
    /\ Len(ingested_files) < Len(files)
    /\ LET file == files[Len(ingested_files) + 1]
           content == AppContent(file)
           filename == AppName(file)
           html == endswith(lower(filename), <<".", "h", "t", "m", "l">>)
           r == ingest(collection, content, filename)
       IN  IF html /\ DecodeFails(content)
           THEN /\ ret' = HTTPException(500, "UnicodeDecodeError")
                /\ pc' = "idle"
                /\ UNCHANGED <<collection, htmlVars, total_chunks, ingested_files>>
           ELSE /\ IF html
                   THEN /\ html_content_store' =
                              [content |-> decode(content), filename |-> filename]
                        /\ html_content' = set_html_content(decode(content))
                   ELSE UNCHANGED htmlVars
                /\ IF r.ret.kind = "raise"
                   THEN /\ ret' = HTTPException(500, r.ret.exc)
                        /\ pc' = "idle"
                        /\ UNCHANGED <<collection, total_chunks, ingested_files>>
                   ELSE /\ collection' = r.collection
                        /\ total_chunks' = total_chunks + r.ret.value
                        /\ ingested_files' = Append(ingested_files, filename)
                        /\ UNCHANGED <<ret, pc>>
    /\ UNCHANGED <<files, last>>
    /\ UNCHANGED <<text, chunk_size, overlap, start, chunks, windows>>

\* lines 201-206
build_knowledge_base_return ==
    /\ pc = "batch"
    /\ UNCHANGED requests
    /\ Len(ingested_files) = Len(files)
    /\ ret' = Success([status |-> "success", total_chunks |-> total_chunks,
                       files_ingested |-> ingested_files])
    /\ pc' = "idle"
    /\ UNCHANGED <<collection, last, batchVars, htmlVars>>
    /\ UNCHANGED <<text, chunk_size, overlap, start, chunks, windows>>

\* lines 325-338
clear_knowledge_base ==
    /\ pc = "idle"
    /\ UNCHANGED requests
    /\ collection' = {}
    /\ html_content_store' = [content |-> None, filename |-> None]
    /\ ret' = Success([status |-> "success"])
    /\ last' = AppRequest("clear_knowledge_base", NoFile, collection)
    /\ UNCHANGED <<chunkVars, batchVars, html_content>>

\* lines 266-296 and generate_script (script_generator.py lines 37-62): the
\* answer, with the calls made to the index and to the language model and the
\* HTML the prompt of the script was given
generate_selenium_script ==
    /\ pc = "idle"
    /\ UNCHANGED requests
    /\ ret' = (IF ~Truthy(html_content_store.content)
               THEN HTTPException(400, "No HTML content uploaded. Please upload HTML first.")
               ELSE Success([status |-> "success", html |-> page_html(html_content),
                             calls |-> <<"search", "_call_llm">>]))
    /\ last' = AppRequest("generate_selenium_script", NoFile, collection)
    /\ UNCHANGED <<collection, chunkVars, batchVars, htmlVars>>

\* lines 299-322 and generate_script_from_text (script_generator.py lines
\* 176-198), which makes a test case of the description and calls
\* generate_script
generate_script_from_description ==
    /\ pc = "idle"
    /\ UNCHANGED requests
    /\ ret' = (IF ~Truthy(html_content_store.content)
               THEN HTTPException(400, "No HTML content uploaded. Please upload HTML first.")
               ELSE Success([status |-> "success", html |-> page_html(html_content),
                             calls |-> <<"search", "_call_llm">>]))
    /\ last' = AppRequest("generate_script_from_description", NoFile, collection)
    /\ UNCHANGED <<collection, chunkVars, batchVars, htmlVars>>

\* the uploads of single files, clear and script generation
NextApp ==
    \/ upload_document
    \/ upload_html
    \/ upload_html_text
    \/ clear_knowledge_base
    \/ generate_selenium_script
    \/ generate_script_from_description

SpecApp == InitApp /\ [][NextApp]_vars

\* the uploads of several files, and clear
NextBatch ==
    \/ build_knowledge_base_enter
    \/ build_knowledge_base_iter
    \/ build_knowledge_base_return
    \/ clear_knowledge_base

SpecBatch == InitApp /\ [][NextBatch]_vars

AppTypeOK ==
    /\ pc \in {"idle", "batch"}
    /\ total_chunks >= 0
    /\ Len(ingested_files) <= Len(files)

---------------------------------------------------------------------------
(* Claims about build_knowledge_base *)

IsHtmlName(filename) == endswith(lower(filename), <<".", "h", "t", "m", "l">>)

\* the collection after the first k files of fs were ingested one after the
\* other, in the order of fs, into coll
RECURSIVE Sequentially(_, _, _)
Sequentially(coll, fs, k) ==
    IF k = 0 THEN coll
    ELSE ingest(Sequentially(coll, fs, k - 1), AppContent(fs[k]), AppName(fs[k])).collection

\* what the ingest of the k-th file returns or raises then
IngestOf(coll, fs, k) ==
    ingest(Sequentially(coll, fs, k - 1), AppContent(fs[k]), AppName(fs[k])).ret

RECURSIVE SumOfCounts(_, _, _)
SumOfCounts(coll, fs, k) ==
    IF k = 0 THEN 0 ELSE SumOfCounts(coll, fs, k - 1) + IngestOf(coll, fs, k).value

FailsAt(coll, fs, j) ==
    \/ IsHtmlName(AppName(fs[j])) /\ DecodeFails(AppContent(fs[j]))
    \/ IngestOf(coll, fs, j).kind = "raise"

InBatch == last.op = "build_knowledge_base"

\* C18: build_knowledge_base ingests its files one after the other in the
\* order given: at every step the names ingested are the first names of the
\* list, the total is the sum of what their ingests returned, and the index is
\* what ingesting them in that order makes of the index the request found.
\* When the ingest of file j raises, the request answers 500, the entries of
\* files 1..j-1 and the entries the request found are all in the index, and no
\* file after j is ingested; when none raises, the answer carries the total
\* and the names.
C18_BatchNoRollback ==
    InBatch =>
        LET k == Len(ingested_files)
            c0 == last.collection0
        IN  /\ files = last.arg
            /\ k <= Len(files)
            /\ ingested_files = [i \in 1..k |-> AppName(files[i])]
            /\ \A i \in 1..k : ~FailsAt(c0, files, i)
            /\ total_chunks = SumOfCounts(c0, files, k)
            /\ collection = Sequentially(c0, files, k)
            /\ Ids(c0) \subseteq Ids(collection)
            /\ \A i \in 1..k :
                  Ids(Sequentially(c0, files, i)) \subseteq Ids(collection)
            /\ pc = "idle" => ret.kind \in {"raise", "return"}
            /\ (pc = "idle" /\ ret.kind = "raise") =>
                  /\ k < Len(files)
                  /\ FailsAt(c0, files, k + 1)
                  /\ ret.status_code = 500
            /\ (pc = "idle" /\ ret.kind = "return") =>
                  /\ k = Len(files)
                  /\ ret.value.total_chunks = SumOfCounts(c0, files, Len(files))
                  /\ ret.value.files_ingested = ingested_files
            /\ pc = "batch" => ret.kind = "none"

\* the second of three files failed: the entry of the first is in the index,
\* which was empty before, and the third, a markup that decodes, was neither
\* ingested nor kept
C18_Witness ==
    /\ InBatch
    /\ pc = "idle"
    /\ ret.kind = "raise"
    /\ Len(files) = 3
    /\ Len(ingested_files) = 1
    /\ last.collection0 = {}
    /\ get_document_count(collection) = 1
    /\ total_chunks = 1
    /\ files[3] = <<2, 1>>
    /\ get_sources(collection) = {AppNames[1]}
    /\ html_content_store.content = None

---------------------------------------------------------------------------
(* Claims about the HTML kept for script generation *)

MarkupOps == {"upload_html", "upload_html_text"}

\* the markup the last request uploaded, as a string
UploadedMarkup ==
    IF last.op = "upload_html" THEN decode(AppContent(last.arg)) ELSE last.arg[2]

UploadedName ==
    IF last.op = "upload_html" THEN AppName(last.arg) ELSE AppNames[last.arg[1]]

Retained ==
    /\ (last.op \in MarkupOps /\ ret.kind = "return") =>
          /\ html_content_store.content = UploadedMarkup
          /\ html_content_store.filename = UploadedName
          /\ html_content = UploadedMarkup
          /\ last.op = "upload_html" =>
                encode(html_content_store.content) = AppContent(last.arg)
    /\ Truthy(html_content_store.content) => html_content = html_content_store.content
    /\ (last.op = "generate_selenium_script" /\ ret.kind = "return") =>
          /\ ret.value.html = html_content_store.content
          /\ ret.value.html = html_content

---------------------------------------------------------------------------
(* Several upload_document requests under way at the same time on the      *)
(* shared vector_store: every request reads its file, prepares its chunks, *)
(* and hands them to collection.upsert, which the store applies as one     *)
(* write; the steps of different requests come in any order.               *)

NumCallers == 2    \* requests under way at the same time

Callers == 1..NumCallers

\* files of which some share an id: a.txt twice with the same first 100
\* characters, and a.txt and a.txt_0:b.md with texts that make the digested
\* strings the same
RaceFiles ==
    { <<Names[1], Contents[3]>>,
      <<Names[1], Contents[4]>>,
      <<SourceNames[1], SourceContents[1]>>,
      <<SourceNames[2], SourceContents[2]>>,
      <<Names[2], Contents[2]>> }

\* ingest_file lines 297-307: the chunks of a file, as the batch add_documents
\* makes of them (no file of RaceFiles fails to parse)
Prepared(file) ==
    LET parsed == parse_file(file[2], file[1])
    IN  Batch(chunk_text(parsed.text, DefaultChunkSize, DefaultOverlap), file[1])

RaceStart(file) ==
    [op |-> "upload_document", file |-> file, pc |-> "start",
     content |-> <<>>, batch |-> <<>>, ret |-> NoResult]

\* the history: the collection the requests found, and the callers in the
\* order the store applied their upserts
RaceHistory(coll, order) == [op |-> "race", collection0 |-> coll, order |-> order]

InitRace ==
    /\ text = <<>>
    /\ chunk_size = DefaultChunkSize
    /\ overlap = DefaultOverlap
    /\ start = 0
    /\ chunks = <<>>
    /\ windows = <<>>
    /\ pc = "idle"
    /\ collection \in {{}} \cup {upsert({}, Prepared(f)) : f \in RaceFiles}
    /\ ret = NoResult
    /\ last = RaceHistory(collection, <<>>)
    /\ files = <<>>
    /\ total_chunks = 0
    /\ ingested_files = <<>>
    /\ html_content_store = [content |-> None, filename |-> None]
    /\ html_content = None
    /\ requests \in [Callers -> {RaceStart(f) : f \in RaceFiles}]

\* main.py line 108: content = await file.read()
upload_document_read(c) ==
    /\ requests[c].pc = "start"
    /\ requests' = [requests EXCEPT ![c].pc = "read", ![c].content = requests[c].file[2]]
    /\ UNCHANGED <<collection, ret, last>>

\* ingest_file lines 297-307 and add_documents lines 47-58: what the request
\* computes before it writes
upload_document_prepare(c) ==
    /\ requests[c].pc = "read"
    /\ requests' = [requests EXCEPT ![c].pc = "prepared",
                                   ![c].batch = Prepared(<<requests[c].file[1],
                                                           requests[c].content>>)]
    /\ UNCHANGED <<collection, ret, last>>

\* add_documents lines 60-67 and main.py lines 117-121
upload_document_upsert(c) ==
    /\ requests[c].pc = "prepared"
    /\ collection' = upsert(collection, requests[c].batch)
    /\ requests' = [requests EXCEPT
                       ![c].pc = "done",
                       ![c].ret = Success([status |-> "success",
                                           chunks_added |-> Len(requests[c].batch)])]
    /\ last' = RaceHistory(last.collection0, Append(last.order, c))
    /\ UNCHANGED ret

NextRace ==
    /\ \E c \in Callers :
          \/ upload_document_read(c)
          \/ upload_document_prepare(c)
          \/ upload_document_upsert(c)
    /\ UNCHANGED <<chunkVars, batchVars, htmlVars>>

SpecRace == InitRace /\ [][NextRace]_vars

\* the callers whose upsert was applied and had the id x in its batch, in the
\* order of application
Writers(x) == SelectSeq(last.order, LAMBDA c : x \in BatchIds(requests[c].batch))

EntryOf(c, x) ==
    LET b == requests[c].batch
    IN  b[CHOOSE i \in DOMAIN b : b[i].id = x]

AllIds == Ids(last.collection0) \cup UNION {BatchIds(Prepared(f)) : f \in RaceFiles}

\* C20: whatever the order of the steps of the requests, after any number of
\* them wrote an id the index has exactly one entry of the id, and it is,
\* text and metadata, the entry of the request whose upsert was applied last;
\* every entry of the index is as a whole the entry of one request or one the
\* requests found; the count is the number of ids they found or wrote, so an id
\* written by several adds one at most.
C20_LastWriteWins ==
    /\ \A x \in AllIds :
          LET w == Writers(x)
          IN  IF w = <<>>
              THEN \A e \in collection : e.id = x => e \in last.collection0
              ELSE /\ Cardinality({e \in collection : e.id = x}) = 1
                   /\ EntryOf(w[Len(w)], x) \in collection
    /\ \A e \in collection :
          \/ e \in last.collection0
          \/ \E i \in DOMAIN last.order :
                \E j \in DOMAIN requests[last.order[i]].batch :
                    e = requests[last.order[i]].batch[j]
    /\ get_document_count(collection) =
          Cardinality(Ids(last.collection0)
                        \cup UNION {BatchIds(requests[last.order[i]].batch) :
                                      i \in DOMAIN last.order})

\* two requests wrote the same id into the empty index with different texts
\* and different metadata; the second caller's upsert was applied first
C20_Witness ==
    /\ last.collection0 = {}
    /\ Len(last.order) >= 2
    /\ last.order[1] = 2
    /\ last.order[2] = 1
    /\ BatchIds(requests[1].batch) = BatchIds(requests[2].batch)
    /\ requests[1].batch[1].document # requests[2].batch[1].document
    /\ requests[1].batch[1].metadata # requests[2].batch[1].metadata
    /\ collection = {requests[1].batch[1]}
    /\ get_document_count(collection) = 1

---------------------------------------------------------------------------
(* Calls of DocumentParser.parse_file, by path or by content and name *)

\* the files on disk, by path
Disk ==
    [p \in { <<"d", "/", "A", ".", "T", "X", "T">>, <<"d", "/", "a", ".", "x">> } |->
        IF p[3] = "A" THEN <<97, 255>> ELSE <<98>>]

ParsePaths == {None, <<>>} \cup DOMAIN Disk \cup { <<"d", "/", "b", ".", "m", "d">> }

ParseNames ==
    { None, <<>>,
      <<"a", ".", "t", "x", "t">>, <<"A", ".", "T", "X", "T">>,
      <<"a", ".", "b", ".", "m", "d">>, <<"m", "d">>,
      <<"a", ".", "J", "s", "o", "n">>, <<"a", ".", "H", "t", "m", "l">>,
      <<"a", ".", "p", "d", "f">>, <<"a", ".", "D", "O", "C", "X">>,
      <<"a", ".", "x">>, <<"a", ".", "t", "x", "t", ".", "X">>, <<"a", ".">> }

ParseContents ==
    { <<>>, encode(<<"a">>), <<97, 255>>, encode(<<" ", "0", "\n">>),
      encode(<<"<", "p", ">", "a", "<", "/", "p", ">">>) }

\* os.path.basename
basename(path) == Slice(path, rfind(path, <<"/">>, 0, Len(path)) + 1, Len(path))

\* parse_file lines 29-35 and the rest of it: with a path the name is the
\* path's last part and the content is the file's, which has to be there
parse_file_call(file_path, file_content, filename) ==
    IF file_path # None /\ file_path # <<>>
    THEN IF file_path \notin DOMAIN Disk
         THEN [kind |-> "raise", exc |-> "FileNotFoundError"]
         ELSE parse_file(Disk[file_path], basename(file_path))
    ELSE IF filename = None \/ filename = <<>>
    THEN [kind |-> "raise", exc |-> "ValueError: Filename is required"]
    ELSE parse_file(file_content, filename)

ParseRequest(file_path, file_content, filename) ==
    [op |-> "parse_file", file_path |-> file_path, file_content |-> file_content,
     filename |-> filename]

InitParse ==
    /\ text = <<>>
    /\ chunk_size = DefaultChunkSize
    /\ overlap = DefaultOverlap
    /\ start = 0
    /\ chunks = <<>>
    /\ windows = <<>>
    /\ pc = "call"
    /\ collection = {}
    /\ ret = NoResult
    /\ last \in {ParseRequest(p, c, n) : p \in ParsePaths, c \in ParseContents, n \in ParseNames}
    /\ AppStart

ParseFile ==
    /\ pc = "call"
    /\ pc' = "done"
    /\ ret' = parse_file_call(last.file_path, last.file_content, last.filename)
    /\ UNCHANGED <<text, chunk_size, overlap, start, chunks, windows, collection, last>>
    /\ UNCHANGED appVars

NextParse == ParseFile

SpecParse == InitParse /\ [][NextParse]_vars

\* the path and the name the caller gave, if any
HasPath == last.file_path # None /\ last.file_path # <<>>
HasName == last.filename # None /\ last.filename # <<>>

\* the name the format is taken from, and the bytes parsed
NameUsed == IF HasPath THEN basename(last.file_path) ELSE last.filename
BytesUsed == IF HasPath THEN Disk[last.file_path] ELSE last.file_content

\* what follows the last dot of a name, or the whole name if it has no dot
RECURSIVE AfterLastDot(_)
AfterLastDot(name) ==
    IF name = <<>> THEN <<>>
    ELSE LET rest == AfterLastDot(Tail(name))
         IN  IF \E i \in DOMAIN Tail(name) : Tail(name)[i] = "." THEN rest
             ELSE IF name[1] = "." THEN Tail(name)
             ELSE name

KnownExtensions ==
    { <<"t", "x", "t">>, <<"m", "d">>, <<"j", "s", "o", "n">>, <<"h", "t", "m", "l">>,
      <<"p", "d", "f">>, <<"d", "o", "c", "x">> }

\* what the parser of a known format makes of the bytes
ParserResult(ext, bs) ==
    CASE ext \in { <<"t", "x", "t">>, <<"m", "d">> } ->
            IF DecodeFails(bs) THEN [kind |-> "raise", exc |-> "UnicodeDecodeError"]
            ELSE [kind |-> "text", text |-> decode(bs)]
      [] ext = <<"j", "s", "o", "n">> -> parse_json(bs)
      [] ext = <<"h", "t", "m", "l">> -> parse_html(bs)
      [] ext = <<"p", "d", "f">> -> parse_pdf(bs)
      [] ext = <<"d", "o", "c", "x">> -> parse_docx(bs)

Parsed21 == pc = "done" /\ last.op = "parse_file"

\* C21: a call of parse_file with neither a path nor a name raises the
\* ValueError "Filename is required"; with a name (the caller's, or the last
\* part of the path of a file that is there) the format is taken from what
\* follows the last dot of the name, in lower case: for txt, md, json, html,
\* pdf and docx the result is that format's parser's; for anything else the
\* result is the bytes decoded as UTF-8, and when they do not decode, a
\* ValueError whose message names the extension, with no text.
C21_ParseFile ==
    Parsed21 =>
        /\ (~HasPath /\ ~HasName) =>
              ret = [kind |-> "raise", exc |-> "ValueError: Filename is required"]
        /\ (HasName /\ ~HasPath) \/ (HasPath /\ last.file_path \in DOMAIN Disk) =>
              LET ext == lower(AfterLastDot(NameUsed))
              IN  /\ ext \in KnownExtensions => ret = ParserResult(ext, BytesUsed)
                  /\ ext \notin KnownExtensions /\ ~DecodeFails(BytesUsed) =>
                        ret = [kind |-> "text", text |-> decode(BytesUsed)]
                  /\ ext \notin KnownExtensions /\ DecodeFails(BytesUsed) =>
                        /\ ret.kind = "raise"
                        /\ ret.exc = "ValueError: Unsupported file type: " \o Str(ext)
                        /\ "text" \notin DOMAIN ret

\* bytes that are no UTF-8 under a name whose last extension, X, is none of
\* the six: the error names x
C21_Witness ==
    /\ Parsed21
    /\ ~HasPath
    /\ last.filename = <<"a", ".", "t", "x", "t", ".", "X">>
    /\ DecodeFails(last.file_content)
    /\ ret = [kind |-> "raise", exc |-> "ValueError: Unsupported file type: x"]

---------------------------------------------------------------------------
(* Claims about the two copies of the HTML and about failed uploads *)

\* C27: whenever no request is under way, the HTML of the script generator is
\* the HTML of html_content_store; after a clear both are None.
C27_HtmlInSync ==
    pc = "idle" =>
        /\ html_content = html_content_store.content
        /\ last.op = "clear_knowledge_base" =>
              (html_content = None /\ html_content_store.content = None)

GenerateOps == {"generate_selenium_script", "generate_script_from_description"}

NoHtml == HTTPException(400, "No HTML content uploaded. Please upload HTML first.")

\* C28: a request to generate a script is answered with the 400 error
\* "No HTML content uploaded" exactly if no upload of HTML has succeeded since
\* the start or the last clear; then it makes no call to the index or to the
\* language model, and otherwise the script is generated from the HTML of the
\* latest upload.
C28_NoHtmlError ==
    (pc = "idle" /\ last.op \in GenerateOps) =>
        /\ ret = NoHtml <=> ~last.uploaded.done
        /\ ret # NoHtml =>
              /\ ret.kind = "return"
              /\ ret.value.calls = <<"search", "_call_llm">>
              /\ ret.value.html = last.uploaded.html

\* C30: a request to upload_html or upload_html_text that is answered with an
\* error leaves html_content_store, the HTML of the script generator and the
\* index as they were.
C30_FailedUploadChangesNothing ==
    [][(last'.op \in MarkupOps /\ ret'.kind = "raise") =>
          UNCHANGED <<html_content_store, html_content, collection>>]_vars

---------------------------------------------------------------------------
(* A build_knowledge_base request and the requests handled while it waits  *)
(* for a file: the loop awaits file.read() before every file, and there    *)
(* the handlers of other requests run, each from its own await to its      *)
(* answer.  Between the last file and the answer there is no await.        *)

MaxMeanwhile == 1    \* requests handled while the build_knowledge_base request waits

\* the file the other uploads bring: a.txt with b
MeanwhileFile == <<1, 2>>

\* lines 176-182: a request with its files has arrived and its loop is entered
InitConcurrent ==
    /\ text = <<>>
    /\ chunk_size = DefaultChunkSize
    /\ overlap = DefaultOverlap
    /\ start = 0
    /\ chunks = <<>>
    /\ windows = <<>>
    /\ pc = "batch"
    /\ collection = {}
    /\ ret = NoResult
    /\ files \in Seqs(BatchFiles, MaxBatch) \ {<<>>}
    /\ last = [op |-> "build_knowledge_base", arg |-> files, collection0 |-> {},
               uploaded |-> [done |-> FALSE, html |-> None]]
    /\ total_chunks = 0
    /\ ingested_files = <<>>
    /\ html_content_store = [content |-> None, filename |-> None]
    /\ html_content = None
    /\ requests = <<>>

\* the build_knowledge_base request waits at line 184
Waiting ==
    /\ pc = "batch"
    /\ Len(ingested_files) < Len(files)
    /\ Len(requests) < MaxMeanwhile

\* what is kept of a request handled meanwhile: the number of files the
\* build_knowledge_base request had ingested then, and the answer
Meanwhile(op, answer) == [op |-> op, at |-> Len(ingested_files), ret |-> answer]

\* clear_knowledge_base (lines 325-338) handled meanwhile
clear_knowledge_base_meanwhile ==
    /\ Waiting
    /\ collection' = {}
    /\ html_content_store' = [content |-> None, filename |-> None]
    /\ requests' = Append(requests,
                          Meanwhile("clear_knowledge_base", Success([status |-> "success"])))
    /\ UNCHANGED <<chunkVars, batchVars, html_content, ret, last>>

\* upload_html (lines 126-150) handled meanwhile, with a file that decodes
upload_html_meanwhile ==
    /\ Waiting
    /\ LET content == AppContent(MeanwhileFile)
           filename == AppName(MeanwhileFile)
           r == ingest_html(collection, content, filename, FALSE)
       IN  /\ html_content_store' = [content |-> decode(content), filename |-> filename]
           /\ html_content' = set_html_content(decode(content))
           /\ collection' = r.collection
           /\ requests' = Append(requests, Meanwhile("upload_html", Answer(r)))
    /\ UNCHANGED <<chunkVars, batchVars, ret, last>>

\* upload_document (lines 103-123) handled meanwhile
upload_document_meanwhile ==
    /\ Waiting
    /\ LET r == ingest(collection, AppContent(MeanwhileFile), AppName(MeanwhileFile))
       IN  /\ collection' = r.collection
           /\ requests' = Append(requests, Meanwhile("upload_document", Answer(r)))
    /\ UNCHANGED <<chunkVars, batchVars, htmlVars, ret, last>>

NextConcurrent ==
    \/ build_knowledge_base_iter
    \/ build_knowledge_base_return
    \/ clear_knowledge_base_meanwhile
    \/ upload_html_meanwhile
    \/ upload_document_meanwhile

SpecConcurrent == InitConcurrent /\ [][NextConcurrent]_vars

\* the build_knowledge_base request has answered with success
Built29 == pc = "idle" /\ last.op = "build_knowledge_base" /\ ret.kind = "return"

\* the ids of the entries the ingest of the k-th file of the request makes
EntriesOf(k) ==
    LET parsed == parse_file(AppContent(files[k]), AppName(files[k]))
    IN  BatchIds(Batch(chunk_text(parsed.text, DefaultChunkSize, DefaultOverlap),
                       AppName(files[k])))

HtmlFiles == {k \in DOMAIN files : IsHtmlName(AppName(files[k]))}

\* the files ingested before the latest clear handled meanwhile
ClearedAt == MaxOf({0} \cup {requests[i].at : i \in {j \in DOMAIN requests :
                                      requests[j].op = "clear_knowledge_base"}})

\* a clear or an upload of HTML was handled after the k-th file was ingested
Overwritten(k) ==
    \E i \in DOMAIN requests :
        /\ requests[i].op \in {"clear_knowledge_base", "upload_html"}
        /\ requests[i].at >= k

\* C29 as stated: when the request answers with success the index has the
\* entries of every file of files_ingested, and the HTML kept is the content of
\* the HTML file of the request if it had one (of the last, if several),
\* whatever requests were handled meanwhile.
C29_Original ==
    Built29 =>
        /\ ret.value.files_ingested = [k \in DOMAIN files |-> AppName(files[k])]
        /\ \A k \in DOMAIN files : EntriesOf(k) \subseteq Ids(collection)
        /\ HtmlFiles # {} =>
              html_content_store.content = decode(AppContent(files[MaxOf(HtmlFiles)]))

\* C29 as amended: when the request answers with success the index has the
\* entries of every file it ingested after the latest clear handled meanwhile
\* (of every file, if there was none), and the HTML kept is the content of
\* the last HTML file of the request unless a clear or an upload of HTML was
\* handled after that file was ingested.
C29_Amended ==
    Built29 =>
        /\ ret.value.files_ingested = [k \in DOMAIN files |-> AppName(files[k])]
        /\ \A k \in DOMAIN files : k > ClearedAt => EntriesOf(k) \subseteq Ids(collection)
        /\ (HtmlFiles # {} /\ ~Overwritten(MaxOf(HtmlFiles))) =>
              /\ html_content_store.content = decode(AppContent(files[MaxOf(HtmlFiles)]))
              /\ html_content = html_content_store.content

\* a request of a.txt and P.HTML answered with success after a clear was
\* handled between the two files: the entries of a.txt are gone, the HTML of
\* P.HTML is kept
C29_Witness ==
    /\ Built29
    /\ files = << <<1, 2>>, <<2, 1>> >>
    /\ Len(requests) = 1
    /\ requests[1].op = "clear_knowledge_base"
    /\ requests[1].at = 1
    /\ get_sources(collection) = {AppNames[2]}
    /\ ret.value.total_chunks = 2
    /\ html_content_store.content = decode(AppContents[1])

=============================================================================
